---- MODULE Spec2Model ----
(***************************************************************************)
(* Model of the markdown inline editor: the range extractor of             *)
(* src/src/parser.ts and the Decorator of src/src/decorator.ts (versioned  *)
(* LRU cache, selection filter, debounce scheduler), driven by the host    *)
(* events that src/unnamed/part_003 (activate) subscribes to.              *)
(*                                                                         *)
(* Texts are sequences of one-character strings; offsets are 0-based as in *)
(* the source, so the character at offset p of text t is t[p + 1].         *)
(***************************************************************************)
EXTENDS Integers, Sequences, FiniteSets, TLC

\* a value computed once and named, as a const of the source is
Const(value, Body(_)) == CHOOSE result \in {Body(v) : v \in {value}} : TRUE

Min(a, b) == IF a <= b THEN a ELSE b
Max(a, b) == IF a >= b THEN a ELSE b

(***************************************************************************)
(* Strings                                                                 *)
(***************************************************************************)

\* text[pos]; "" stands for JavaScript's undefined (out of range).
CharAt(text, pos) == IF pos >= 0 /\ pos < Len(text) THEN text[pos + 1] ELSE ""

\* The characters /\s/ matches besides the five with an escape of their own:
\* U+000B, U+00A0, U+1680 and U+FEFF are written as they are; a string of
\* the module cannot hold the others, which are named by their code point.
UnicodeSpaces ==
    { "", " ", " ", "﻿",
      "U+2000", "U+2001", "U+2002", "U+2003", "U+2004", "U+2005", "U+2006",
      "U+2007", "U+2008", "U+2009", "U+200A", "U+2028", "U+2029", "U+202F",
      "U+205F", "U+3000" }

\* the characters /\s/ matches
WhiteSpace == {" ", "\t", "\n", "\r", "\f"} \cup UnicodeSpaces

\* /\s/.test(c)
IsSpace(c) == c \in WhiteSpace

\* text.substring(a, b): an index below 0 counts as 0, one above the length
\* as the length, and the smaller of the two is the start
Substring(text, a, b) ==
    SubSeq(text, Min(Max(Min(a, b), 0), Len(text)) + 1, Min(Max(Max(a, b), 0), Len(text)))

\* text.indexOf(c, from) for a one-character needle; -1 when absent
RECURSIVE IndexOfChar(_, _, _)
IndexOfChar(text, c, from) ==
    IF from >= Len(text) THEN -1
    ELSE IF CharAt(text, from) = c THEN from
    ELSE IndexOfChar(text, c, from + 1)

\* does needle occur in text at offset pos
MatchesAt(text, needle, pos) ==
    /\ pos >= 0
    /\ pos + Len(needle) <= Len(text)
    /\ \A i \in 1..Len(needle) : text[pos + i] = needle[i]

\* text.indexOf(needle, from); -1 when absent
RECURSIVE IndexOf(_, _, _)
IndexOf(text, needle, from) ==
    IF from + Len(needle) > Len(text) THEN -1
    ELSE IF MatchesAt(text, needle, from) THEN from
    ELSE IndexOf(text, needle, from + 1)

\* text.lastIndexOf(needle, from): the last occurrence that starts at or before from
RECURSIVE LastIndexOf(_, _, _)
LastIndexOf(text, needle, from) ==
    IF from < 0 THEN -1
    ELSE IF MatchesAt(text, needle, from) THEN from
    ELSE LastIndexOf(text, needle, from - 1)

\* text.replace(/\r\n|\r/g, '\n'), guarded by text.indexOf('\r') !== -1
RECURSIVE ReplaceCR(_)
ReplaceCR(text) ==
    IF text = <<>> THEN <<>>
    ELSE IF Head(text) = "\r"
         THEN IF Len(text) >= 2 /\ text[2] = "\n"
              THEN <<"\n">> \o ReplaceCR(SubSeq(text, 3, Len(text)))
              ELSE <<"\n">> \o ReplaceCR(Tail(text))
         ELSE <<Head(text)>> \o ReplaceCR(Tail(text))

normalize(text) == IF IndexOfChar(text, "\r", 0) # -1 THEN ReplaceCR(text) ELSE text

(***************************************************************************)
(* The documents of the model.  The grammar (remark with the GFM           *)
(* extension) is an external library: mdast gives, for each normalized     *)
(* text of the model, the tree it reports, as the list of its nodes in     *)
(* visiting order (pre-order), each with the index of its parent.          *)
(***************************************************************************)

TxtBold   == <<"*", "*", "b", "*", "*">>
TxtHeadEm == <<"#", " ", "H", "\n", "*", "i", "*">>
TxtCrlf   == <<"*", "*", "a", "\r", "\n", "b", "*", "*">>
TxtTodo   == <<"-", " ", "[", " ", "]", " ", "a">>
TxtDone   == <<"-", " ", "[", "x", "]", " ", "a">>

Texts == {TxtBold, TxtHeadEm, TxtCrlf, TxtTodo, TxtDone}

\* What a checkbox edit makes of a text other than the one the click saw: the
\* character at offset 3 of '**b**' replaced, or a character put at the end
\* of the line '# H' or of the line '**a'.
TxtBoldX    == <<"*", "*", "b", "x", "*">>
TxtBoldSp   == <<"*", "*", "b", " ", "*">>
TxtHeadXEm  == <<"#", " ", "H", "x", "\n", "*", "i", "*">>
TxtHeadSpEm == <<"#", " ", "H", " ", "\n", "*", "i", "*">>
TxtCrlfX    == <<"*", "*", "a", "x", "\r", "\n", "b", "*", "*">>
TxtCrlfSp   == <<"*", "*", "a", " ", "\r", "\n", "b", "*", "*">>

EditedTexts == {TxtBoldX, TxtBoldSp, TxtHeadXEm, TxtHeadSpEm, TxtCrlfX, TxtCrlfSp}

\* every text a document of the window can have
DocTexts == Texts \cup EditedTexts

\* a node of the tree: its position.start.offset and position.end.offset, and
\* whether it has them: "offsets" (it does), "none" (node.position is
\* undefined), "broken" (a position object without start and end points)
Node(t, s, e, p) ==
    [type |-> t, start |-> s, end |-> e, parent |-> p, position |-> "offsets"]

\* a link node, which also has the url it points to
Link(s, e, p, url) ==
    [type |-> "link", start |-> s, end |-> e, parent |-> p, position |-> "offsets",
     url |-> url]

\* the backtick character (a string of the module cannot hold one)
Backtick == "BACKTICK"

\* The blocks of the documents the extractor is applied to: the text of each
\* and the nodes the grammar reports for it, offsets from the start of the
\* block, parent 0 being the root of the document.
Blocks == <<
    \* **bold**
    [text  |-> <<"*", "*", "b", "o", "l", "d", "*", "*">>,
     nodes |-> << Node("paragraph", 0, 8, 0), Node("strong", 0, 8, 1), Node("text", 2, 6, 2) >>],
    \* __b__
    [text  |-> <<"_", "_", "b", "_", "_">>,
     nodes |-> << Node("paragraph", 0, 5, 0), Node("strong", 0, 5, 1), Node("text", 2, 3, 2) >>],
    \* *i*
    [text  |-> <<"*", "i", "*">>,
     nodes |-> << Node("paragraph", 0, 3, 0), Node("emphasis", 0, 3, 1), Node("text", 1, 2, 2) >>],
    \* ***x***
    [text  |-> <<"*", "*", "*", "x", "*", "*", "*">>,
     nodes |-> << Node("paragraph", 0, 7, 0), Node("emphasis", 0, 7, 1), Node("strong", 1, 6, 2), Node("text", 3, 4, 3) >>],
    \* **_x_**
    [text  |-> <<"*", "*", "_", "x", "_", "*", "*">>,
     nodes |-> << Node("paragraph", 0, 7, 0), Node("strong", 0, 7, 1), Node("emphasis", 2, 5, 2), Node("text", 3, 4, 3) >>],
    \* **a*b*c**
    [text  |-> <<"*", "*", "a", "*", "b", "*", "c", "*", "*">>,
     nodes |-> << Node("paragraph", 0, 9, 0), Node("strong", 0, 9, 1), Node("text", 2, 3, 2), Node("emphasis", 3, 6, 2), Node("text", 4, 5, 4), Node("text", 6, 7, 2) >>],
    \* *a**b**c*
    [text  |-> <<"*", "a", "*", "*", "b", "*", "*", "c", "*">>,
     nodes |-> << Node("paragraph", 0, 9, 0), Node("emphasis", 0, 9, 1), Node("text", 1, 2, 2), Node("strong", 2, 7, 2), Node("text", 4, 5, 4), Node("text", 7, 8, 2) >>],
    \* *[**b**](u)*
    [text  |-> <<"*", "[", "*", "*", "b", "*", "*", "]", "(", "u", ")", "*">>,
     nodes |-> << Node("paragraph", 0, 12, 0), Node("emphasis", 0, 12, 1), Link(1, 11, 2, "u"),
                  Node("strong", 2, 7, 3), Node("text", 4, 5, 4) >>],
    \* ~~s~~
    [text  |-> <<"~", "~", "s", "~", "~">>,
     nodes |-> << Node("paragraph", 0, 5, 0), Node("delete", 0, 5, 1), Node("text", 2, 3, 2) >>],
    \* ~s~
    [text  |-> <<"~", "s", "~">>,
     nodes |-> << Node("paragraph", 0, 3, 0), Node("delete", 0, 3, 1), Node("text", 1, 2, 2) >>],
    \* `c`
    [text  |-> <<Backtick, "c", Backtick>>,
     nodes |-> << Node("paragraph", 0, 3, 0), Node("inlineCode", 0, 3, 1) >>],
    \* # H
    [text  |-> <<"#", " ", "H">>,
     nodes |-> << Node("heading", 0, 3, 0), Node("text", 2, 3, 1) >>],
    \* ##  H
    [text  |-> <<"#", "#", " ", " ", "H">>,
     nodes |-> << Node("heading", 0, 5, 0), Node("text", 4, 5, 1) >>],
    \* #
    [text  |-> <<"#">>,
     nodes |-> << Node("heading", 0, 1, 0) >>],
    \* H\n=
    [text  |-> <<"H", "\n", "=">>,
     nodes |-> << Node("heading", 0, 3, 0), Node("text", 0, 1, 1) >>],
    \* - a
    [text  |-> <<"-", " ", "a">>,
     nodes |-> << Node("list", 0, 3, 0), Node("listItem", 0, 3, 1), Node("paragraph", 2, 3, 2), Node("text", 2, 3, 3) >>],
    \* - [x] d
    [text  |-> <<"-", " ", "[", "x", "]", " ", "d">>,
     nodes |-> << Node("list", 0, 7, 0), Node("listItem", 0, 7, 1), Node("paragraph", 6, 7, 2), Node("text", 6, 7, 3) >>],
    \* * [ ] t
    [text  |-> <<"*", " ", "[", " ", "]", " ", "t">>,
     nodes |-> << Node("list", 0, 7, 0), Node("listItem", 0, 7, 1), Node("paragraph", 6, 7, 2), Node("text", 6, 7, 3) >>],
    \* + [X] b
    [text  |-> <<"+", " ", "[", "X", "]", " ", "b">>,
     nodes |-> << Node("list", 0, 7, 0), Node("listItem", 0, 7, 1), Node("paragraph", 6, 7, 2), Node("text", 6, 7, 3) >>],
    \* -
    [text  |-> <<"-">>,
     nodes |-> << Node("list", 0, 1, 0), Node("listItem", 0, 1, 1) >>],
    \* ---
    [text  |-> <<"-", "-", "-">>,
     nodes |-> << Node("thematicBreak", 0, 3, 0) >>],
    \* [t](u)
    [text  |-> <<"[", "t", "]", "(", "u", ")">>,
     nodes |-> << Node("paragraph", 0, 6, 0), Link(0, 6, 1, "u"), Node("text", 1, 2, 2) >>],
    \* [](u)
    [text  |-> <<"[", "]", "(", "u", ")">>,
     nodes |-> << Node("paragraph", 0, 5, 0), Link(0, 5, 1, "u") >>],
    \* <ab:c>
    [text  |-> <<"<", "a", "b", ":", "c", ">">>,
     nodes |-> << Node("paragraph", 0, 6, 0), Link(0, 6, 1, "ab:c"), Node("text", 1, 5, 2) >>],
    \* [![a](b)](c)
    [text  |-> <<"[", "!", "[", "a", "]", "(", "b", ")", "]", "(", "c", ")">>,
     nodes |-> << Node("paragraph", 0, 12, 0), Link(0, 12, 1, "c"), Node("image", 1, 8, 2) >>],
    \* ![a](u)
    [text  |-> <<"!", "[", "a", "]", "(", "u", ")">>,
     nodes |-> << Node("paragraph", 0, 7, 0), Node("image", 0, 7, 1) >>],
    \* ![](u)
    [text  |-> <<"!", "[", "]", "(", "u", ")">>,
     nodes |-> << Node("paragraph", 0, 6, 0), Node("image", 0, 6, 1) >>],
    \* ![]
    [text  |-> <<"!", "[", "]">>,
     nodes |-> << Node("paragraph", 0, 3, 0), Node("text", 0, 3, 1) >>],
    \* > q
    [text  |-> <<">", " ", "q">>,
     nodes |-> << Node("blockquote", 0, 3, 0), Node("paragraph", 2, 3, 1), Node("text", 2, 3, 2) >>],
    \* > > q
    [text  |-> <<">", " ", ">", " ", "q">>,
     nodes |-> << Node("blockquote", 0, 5, 0), Node("blockquote", 2, 5, 1), Node("paragraph", 4, 5, 2), Node("text", 4, 5, 3) >>],
    \* ```\nc\n```
    [text  |-> <<Backtick, Backtick, Backtick, "\n", "c", "\n", Backtick, Backtick, Backtick>>,
     nodes |-> << Node("code", 0, 9, 0) >>],
    \* \![](u)
    [text  |-> <<"\\", "!", "[", "]", "(", "u", ")">>,
     nodes |-> << Node("paragraph", 0, 7, 0), Node("text", 0, 2, 1), Link(2, 7, 1, "u") >>],
    \* > a\n> > b
    [text  |-> <<">", " ", "a", "\n", ">", " ", ">", " ", "b">>,
     nodes |-> << Node("blockquote", 0, 9, 0), Node("paragraph", 2, 3, 1), Node("text", 2, 3, 2),
                  Node("blockquote", 6, 9, 1), Node("paragraph", 8, 9, 4), Node("text", 8, 9, 5) >>],
    \* #######\n=
    [text  |-> <<"#", "#", "#", "#", "#", "#", "#", "\n", "=">>,
     nodes |-> << Node("heading", 0, 9, 0), Node("text", 0, 7, 1) >>],
    \* # H with a no-break space (U+00A0) before the H
    [text  |-> <<"#", " ", " ", "H">>,
     nodes |-> << Node("heading", 0, 4, 0), Node("text", 2, 4, 1) >>]
>>

\* bound on the number of blocks of a document
MaxBlocks == 2

\* the blank line between two blocks
BlankLine == <<"\n", "\n">>

\* the offset of the first blank line of text from offset from; -1 when none
NextBlank(text, from) == IndexOf(text, BlankLine, from)

\* the texts between the blank lines of text, from offset from
RECURSIVE SplitBlocks(_, _)
SplitBlocks(text, from) ==
    LET blank == NextBlank(text, from)
    IN  IF blank = -1 THEN <<Substring(text, from, Len(text))>>
        ELSE <<Substring(text, from, blank)>> \o SplitBlocks(text, blank + 2)

\* the block of the catalogue with this text; 0 when there is none
BlockOf(catalogue, blockText) ==
    IF \E b \in 1..Len(catalogue) : catalogue[b].text = blockText
    THEN CHOOSE b \in 1..Len(catalogue) : catalogue[b].text = blockText
    ELSE 0

\* the nodes of a block placed at offset, after `before` nodes of the tree
Placed(nodes, offset, before) ==
    [i \in 1..Len(nodes) |->
        [nodes[i] EXCEPT !.start = @ + offset, !.end = @ + offset,
                         !.parent = IF @ = 0 THEN 1 ELSE @ + before]]

\* the nodes of the blocks parts[k], parts[k + 1], ... in visiting order
RECURSIVE BlockNodes(_, _, _, _, _)
BlockNodes(catalogue, parts, k, offset, before) ==
    IF k > Len(parts) THEN <<>>
    ELSE LET nodes == catalogue[BlockOf(catalogue, parts[k])].nodes
         IN  Placed(nodes, offset, before)
             \o BlockNodes(catalogue, parts, k + 1, offset + Len(parts[k]) + 2,
                           before + Len(nodes))

\* a list goes on over a blank line into the next list item
IsList(block) == block.nodes[1].type = "list"

\* the texts parts are blocks of the catalogue, no two lists in a row
Composed(catalogue, parts) ==
    LET blocks == [k \in 1..Len(parts) |-> BlockOf(catalogue, parts[k])]
    IN  /\ \A k \in 1..Len(parts) : blocks[k] # 0
        /\ \A k \in 1..(Len(parts) - 1) :
               ~(IsList(catalogue[blocks[k]]) /\ IsList(catalogue[blocks[k + 1]]))

\* the tree of a text: the root, and under it the nodes of its blocks when
\* the text is made of blocks of the catalogue with blank lines between them
ComposedTree(catalogue, text) ==
    LET parts == SplitBlocks(text, 0)
    IN  << Node("root", 0, Len(text), 0) >>
        \o (IF Composed(catalogue, parts)
            THEN BlockNodes(catalogue, parts, 1, 0, 1) ELSE <<>>)

mdast(text) ==
    CASE text = TxtBold ->
           << Node("root", 0, 5, 0), Node("paragraph", 0, 5, 1),
              Node("strong", 0, 5, 2), Node("text", 2, 3, 3) >>
      [] text = TxtHeadEm ->
           << Node("root", 0, 7, 0), Node("heading", 0, 3, 1), Node("text", 2, 3, 2),
              Node("paragraph", 4, 7, 1), Node("emphasis", 4, 7, 4), Node("text", 5, 6, 5) >>
      [] text \in {TxtTodo, TxtDone} ->
           << Node("root", 0, 7, 0), Node("list", 0, 7, 1), Node("listItem", 0, 7, 2),
              Node("paragraph", 6, 7, 3), Node("text", 6, 7, 4) >>
      [] text = normalize(TxtCrlf) ->
           << Node("root", 0, 7, 0), Node("paragraph", 0, 7, 1),
              Node("strong", 0, 7, 2), Node("text", 2, 5, 3) >>
      [] text \in {normalize(TxtCrlfX), normalize(TxtCrlfSp)} ->
           << Node("root", 0, 8, 0), Node("paragraph", 0, 8, 1),
              Node("strong", 0, 8, 2), Node("text", 2, 6, 3) >>
      [] text = TxtBoldX ->
           << Node("root", 0, 5, 0), Node("paragraph", 0, 5, 1), Node("text", 0, 1, 2),
              Node("emphasis", 1, 5, 2), Node("text", 2, 4, 4) >>
      [] text = TxtBoldSp ->
           << Node("root", 0, 5, 0), Node("paragraph", 0, 5, 1), Node("text", 0, 5, 2) >>
      [] text = TxtHeadXEm ->
           << Node("root", 0, 8, 0), Node("heading", 0, 4, 1), Node("text", 2, 4, 2),
              Node("paragraph", 5, 8, 1), Node("emphasis", 5, 8, 4), Node("text", 6, 7, 5) >>
      [] text = TxtHeadSpEm ->
           << Node("root", 0, 8, 0), Node("heading", 0, 4, 1), Node("text", 2, 3, 2),
              Node("paragraph", 5, 8, 1), Node("emphasis", 5, 8, 4), Node("text", 6, 7, 5) >>
      [] OTHER -> ComposedTree(Blocks, text)

(***************************************************************************)
(* The range extractor (MarkdownParser)                                    *)
(***************************************************************************)

Dec(s, e, t) == [startPos |-> s, endPos |-> e, type |-> t]

\* number of consecutive characters of the set chars at pos, pos+1, ... below end
RECURSIVE RunOf(_, _, _, _)
RunOf(text, pos, end, chars) ==
    IF pos < end /\ CharAt(text, pos) \in chars
    THEN 1 + RunOf(text, pos + 1, end, chars)
    ELSE 0

\* contentEnd of processHeading: step back over trailing whitespace, not below lo
RECURSIVE TrimEnd(_, _, _)
TrimEnd(text, lo, hi) ==
    IF hi > lo /\ IsSpace(CharAt(text, hi - 1)) THEN TrimEnd(text, lo, hi - 1) ELSE hi

\* false for a node without position (with a broken position the test itself
\* throws: see Throws)
hasValidPosition(node) == node.position = "offsets"

addMarkerDecorations(start, end, markerLength, contentType) ==
    LET contentStart == start + markerLength
        contentEnd   == end - markerLength
    IN  <<Dec(start, contentStart, "hide")>>
        \o (IF contentStart < contentEnd
            THEN <<Dec(contentStart, contentEnd, contentType)>> ELSE <<>>)
        \o <<Dec(contentEnd, end, "hide")>>

\* variant: only the hashes are hidden, not the whitespace after them
processHeadingMarkerOnly(node, text) ==
    LET start        == node.start
        end          == node.end
        markerLength == RunOf(text, start, end, {"#"})
        headingType  == "heading" \o ToString(markerLength)
        contentStart == start + markerLength
        hideEnd      == contentStart + RunOf(text, contentStart, end, WhiteSpace)
        contentEnd   == TrimEnd(text, hideEnd, end)
    IN  IF ~hasValidPosition(node) THEN <<>>
        ELSE IF markerLength = 0 THEN <<>>
        ELSE <<Dec(start, contentStart, "hide")>>
             \o (IF hideEnd < contentEnd
                 THEN <<Dec(hideEnd, contentEnd, headingType),
                        Dec(hideEnd, contentEnd, "heading")>>
                 ELSE <<>>)

processHeading(node, text) ==
    LET start        == node.start
        end          == node.end
        markerLength == RunOf(text, start, end, {"#"})
        headingType  == "heading" \o ToString(markerLength)
        contentStart == start + markerLength
        hideEnd      == contentStart + RunOf(text, contentStart, end, WhiteSpace)
        contentEnd   == TrimEnd(text, hideEnd, end)
    IN  IF ~hasValidPosition(node) THEN <<>>
        ELSE IF markerLength = 0 THEN <<>>
        ELSE <<Dec(start, hideEnd, "hide")>>
             \o (IF hideEnd < contentEnd
                 THEN <<Dec(hideEnd, contentEnd, headingType),
                        Dec(hideEnd, contentEnd, "heading")>>
                 ELSE <<>>)

\* the marker found at pos; <<>> stands for null (no marker)
getBoldMarker(text, pos) ==
    IF pos + 2 <= Len(text)
    THEN IF CharAt(text, pos) = "*" /\ CharAt(text, pos + 1) = "*" THEN <<"*", "*">>
         ELSE IF CharAt(text, pos) = "_" /\ CharAt(text, pos + 1) = "_" THEN <<"_", "_">>
         ELSE <<>>
    ELSE <<>>

getItalicMarker(text, pos) ==
    IF pos + 1 <= Len(text)
    THEN IF CharAt(text, pos) = "*" THEN <<"*">>
         ELSE IF CharAt(text, pos) = "_" THEN <<"_">>
         ELSE <<>>
    ELSE <<>>

\* ancestors: the nodes of the list `ancestors`, nearest first
processStrong(node, text, ancestors) ==
    LET marker       == getBoldMarker(text, node.start)
        isBoldItalic == \E i \in 1..Len(ancestors) : ancestors[i].type = "emphasis"
    IN  IF ~hasValidPosition(node) THEN <<>>
        ELSE IF marker = <<>> THEN <<>>
        ELSE addMarkerDecorations(node.start, node.end, Len(marker),
                                  IF isBoldItalic THEN "boldItalic" ELSE "bold")

processEmphasis(node, text, ancestors) ==
    LET marker   == getItalicMarker(text, node.start)
        strongs  == {i \in 1..Len(ancestors) : ancestors[i].type = "strong"}
        \* ancestors.find: the first (nearest) strong ancestor
        parentStrong == ancestors[CHOOSE i \in strongs : \A j \in strongs : i <= j]
        isBoldItalic == strongs # {}
    IN  IF ~hasValidPosition(node) THEN <<>>
        ELSE IF marker = <<>> THEN <<>>
        ELSE IF strongs # {}
                /\ parentStrong.position = "offsets"
                /\ node.start = parentStrong.start + 2
                /\ node.end = parentStrong.end - 2
        THEN <<>>
        ELSE addMarkerDecorations(node.start, node.end, Len(marker),
                                  IF isBoldItalic THEN "boldItalic" ELSE "italic")

processStrikethrough(node, text) ==
    IF ~hasValidPosition(node) THEN <<>>
    ELSE addMarkerDecorations(node.start, node.end, 2, "strikethrough")

processInlineCode(node, text) ==
    LET markerLength == RunOf(text, node.start, node.end, {Backtick})
    IN  IF ~hasValidPosition(node) THEN <<>>
        ELSE IF markerLength = 0 THEN <<>>
        ELSE addMarkerDecorations(node.start, node.end, markerLength, "code")

Fence == <<Backtick, Backtick, Backtick>>

processCodeBlock(node, text) ==
    LET start          == node.start
        end            == node.end
        fenceStart     == IndexOf(text, Fence, start)
        closingFence   == LastIndexOf(text, Fence, end)
        openingLineEnd == IndexOfChar(text, "\n", fenceStart)
        openingEnd     == IF openingLineEnd # -1 /\ openingLineEnd < closingFence
                          THEN openingLineEnd + 1 ELSE fenceStart + 3
        closingFenceEnd == closingFence + 3
        closingLineEnd == IndexOfChar(text, "\n", closingFence)
        closingEnd     == IF closingLineEnd # -1 THEN closingLineEnd + 1 ELSE end
    IN  IF ~hasValidPosition(node) THEN <<>>
        ELSE IF fenceStart = -1 THEN <<>>
        ELSE IF closingFence = -1 \/ closingFence <= fenceStart THEN <<>>
        ELSE << Dec(fenceStart, closingFenceEnd, "codeBlock"),
                Dec(fenceStart, openingEnd, "hide"),
                Dec(closingFence, closingEnd, "hide") >>

\* the range of a link's text, which carries the url
LinkDec(s, e, url) == [startPos |-> s, endPos |-> e, type |-> "link", url |-> url]

processLink(node, text) ==
    LET start        == node.start
        end          == node.end
        bracketStart == IndexOfChar(text, "[", start)
        bracketEnd   == IndexOfChar(text, "]", bracketStart)
        contentStart == bracketStart + 1
        parenStart   == IndexOfChar(text, "(", bracketEnd)
        parenEnd     == IndexOfChar(text, ")", parenStart + 1)
        urlStart     == parenStart + 1
    IN  IF ~hasValidPosition(node) THEN <<>>
        ELSE IF bracketStart = -1 THEN <<>>
        ELSE IF bracketEnd = -1 THEN <<>>
        ELSE <<Dec(bracketStart, bracketStart + 1, "hide")>>
             \o (IF contentStart < bracketEnd
                 THEN <<LinkDec(contentStart, bracketEnd, node.url)>> ELSE <<>>)
             \o <<Dec(bracketEnd, bracketEnd + 1, "hide")>>
             \o (IF parenStart # -1 /\ parenStart = bracketEnd + 1
                 THEN <<Dec(parenStart, parenStart + 1, "hide")>>
                      \o (IF parenEnd # -1 /\ parenEnd <= end
                          THEN (IF urlStart < parenEnd
                                THEN <<Dec(urlStart, parenEnd, "hide")>> ELSE <<>>)
                               \o <<Dec(parenEnd, parenEnd + 1, "hide")>>
                          ELSE <<>>)
                 ELSE <<>>)

\* text.substring(a, b).trim().length === 0
IsBlank(text, a, b) == \A q \in a..(b - 1) : IsSpace(CharAt(text, q))

processImage(node, text) ==
    LET start            == node.start
        end              == node.end
        exclamationStart == IndexOf(text, <<"!", "[">>, start)
        altStart         == exclamationStart + 2
        bracketEnd       == IndexOfChar(text, "]", altStart)
        parenStart       == IndexOfChar(text, "(", bracketEnd)
        parenEnd         == IndexOfChar(text, ")", parenStart + 1)
    IN  IF ~hasValidPosition(node) THEN <<>>
        ELSE IF exclamationStart = -1 \/ exclamationStart > start THEN <<>>
        ELSE <<Dec(exclamationStart, exclamationStart + 2, "hide")>>
             \o (IF bracketEnd = -1 THEN <<>>
                 ELSE (IF altStart <= bracketEnd
                       THEN <<Dec(altStart, bracketEnd, "image")>> ELSE <<>>)
                      \o <<Dec(bracketEnd, bracketEnd + 1, "hide")>>
                      \o (IF /\ parenStart # -1
                             /\ \/ parenStart = bracketEnd + 1
                                \/ /\ parenStart > bracketEnd + 1
                                   /\ IsBlank(text, bracketEnd + 1, parenStart)
                          THEN <<Dec(parenStart, parenStart + 1, "hide")>>
                               \o (IF parenEnd # -1 /\ parenEnd < end
                                   THEN <<Dec(parenEnd, parenEnd + 1, "hide")>>
                                   ELSE <<>>)
                          ELSE <<>>))

\* the inner loop of processBlockquote: the '>' markers of one line from
\* searchStart; acc holds the ranges added and the positions processed so far
RECURSIVE BlockquoteLine(_, _, _, _, _)
BlockquoteLine(text, lineStart, actualLineEnd, searchStart, acc) ==
    LET gtIndex == IndexOfChar(text, ">", searchStart)
        isBlockquoteMarker ==
            \A q \in lineStart..(gtIndex - 1) : CharAt(text, q) \in WhiteSpace \cup {">"}
    IN  IF ~(searchStart < actualLineEnd) THEN acc
        ELSE IF gtIndex = -1 \/ gtIndex >= actualLineEnd THEN acc
        ELSE IF gtIndex \in acc.processedPositions
        THEN BlockquoteLine(text, lineStart, actualLineEnd, gtIndex + 1, acc)
        ELSE IF isBlockquoteMarker
        THEN BlockquoteLine(text, lineStart, actualLineEnd, gtIndex + 1,
                 [decorations |-> Append(acc.decorations,
                                         Dec(gtIndex, gtIndex + 1, "blockquote")),
                  processedPositions |-> acc.processedPositions \cup {gtIndex}])
        ELSE BlockquoteLine(text, lineStart, actualLineEnd, gtIndex + 1, acc)

\* the outer loop of processBlockquote: the lines of the node from offset pos
RECURSIVE BlockquoteFrom(_, _, _, _)
BlockquoteFrom(text, pos, end, acc) ==
    LET lineStart     == IF pos = 0 THEN 0 ELSE LastIndexOf(text, <<"\n">>, pos - 1) + 1
        lineEnd       == IndexOfChar(text, "\n", lineStart)
        actualLineEnd == IF lineEnd = -1 THEN end ELSE Min(lineEnd, end)
        nextLine      == IndexOfChar(text, "\n", pos)
        afterLine     == BlockquoteLine(text, lineStart, actualLineEnd, lineStart, acc)
    IN  IF ~(pos < end) THEN acc
        ELSE IF nextLine = -1 \/ nextLine >= end THEN afterLine
        ELSE BlockquoteFrom(text, nextLine + 1, end, afterLine)

\* variant: the positions other blockquote nodes processed are not looked at
processBlockquoteAlone(node, text, processedPositions) ==
    IF ~hasValidPosition(node)
    THEN [decorations |-> <<>>, processedPositions |-> processedPositions]
    ELSE BlockquoteFrom(text, node.start, node.end,
                        [decorations |-> <<>>, processedPositions |-> {}])

\* the ranges the node adds and the processed positions after it
processBlockquote(node, text, processedPositions) ==
    IF ~hasValidPosition(node)
    THEN [decorations |-> <<>>, processedPositions |-> processedPositions]
    ELSE BlockquoteFrom(text, node.start, node.end,
                        [decorations |-> <<>>, processedPositions |-> processedPositions])

\* variant: the checkbox range takes the space after the bracket token with it
RECURSIVE ListItemFromWithTrailingSpace(_, _, _)
ListItemFromWithTrailingSpace(text, markerEnd, end) ==
    IF ~(markerEnd < end /\ CharAt(text, markerEnd) \in WhiteSpace \cup {"-", "*", "+"})
    THEN <<>>
    ELSE IF CharAt(text, markerEnd) \in {"-", "*", "+"}
    THEN LET markerStart == markerEnd
             afterMarker == markerEnd + 1
             m == IF afterMarker < end /\ CharAt(text, afterMarker) = " "
                  THEN afterMarker + 1 ELSE afterMarker
             checkChar == CharAt(text, m + 1)
         IN  IF /\ m + 2 < end
                /\ CharAt(text, m) = "["
                /\ checkChar \in {" ", "x", "X"}
                /\ CharAt(text, m + 2) = "]"
             THEN << Dec(markerStart, m, "listItem"),
                     Dec(m, m + 4, IF checkChar \in {"x", "X"}
                                   THEN "checkboxChecked" ELSE "checkboxUnchecked") >>
             ELSE << Dec(markerStart, m, "listItem") >>
    ELSE ListItemFromWithTrailingSpace(text, markerEnd + 1, end)

\* the loop of processListItem from offset markerEnd
RECURSIVE ListItemFrom(_, _, _)
ListItemFrom(text, markerEnd, end) ==
    IF ~(markerEnd < end /\ CharAt(text, markerEnd) \in WhiteSpace \cup {"-", "*", "+"})
    THEN <<>>
    ELSE IF CharAt(text, markerEnd) \in {"-", "*", "+"}
    THEN LET markerStart == markerEnd
             afterMarker == markerEnd + 1
             m == IF afterMarker < end /\ CharAt(text, afterMarker) = " "
                  THEN afterMarker + 1 ELSE afterMarker
             checkChar == CharAt(text, m + 1)
         IN  IF /\ m + 2 < end
                /\ CharAt(text, m) = "["
                /\ checkChar \in {" ", "x", "X"}
                /\ CharAt(text, m + 2) = "]"
             THEN << Dec(markerStart, m, "listItem"),
                     Dec(m, m + 3, IF checkChar \in {"x", "X"}
                                   THEN "checkboxChecked" ELSE "checkboxUnchecked") >>
             ELSE << Dec(markerStart, m, "listItem") >>
    ELSE ListItemFrom(text, markerEnd + 1, end)

processListItem(node, text) ==
    IF ~hasValidPosition(node) THEN <<>> ELSE ListItemFrom(text, node.start, node.end)

processThematicBreak(node, text) ==
    IF ~hasValidPosition(node) THEN <<>>
    ELSE <<Dec(node.start, node.end, "horizontalRule")>>

\* variant: only the parent is kept, not what the cache holds for it
RECURSIVE AncestorCacheParentOnly(_, _)
AncestorCacheParentOnly(tree, n) ==
    IF n = 0 THEN <<>>
    ELSE Append(AncestorCacheParentOnly(tree, n - 1),
                IF tree[n].parent = 0 THEN <<>> ELSE <<tree[tree[n].parent]>>)

\* ancestorMap after the first n nodes are visited: for each of them the list
\* computed when it was visited, its parent followed by what the map held for
\* the parent (the empty list stands for no entry: nothing is appended)
RECURSIVE AncestorCache(_, _)
AncestorCache(tree, n) ==
    IF n = 0 THEN <<>>
    ELSE LET ancestorMap == AncestorCache(tree, n - 1)
         IN  Append(ancestorMap,
                    IF tree[n].parent = 0 THEN <<>>
                    ELSE <<tree[tree[n].parent]>> \o ancestorMap[tree[n].parent])

\* currentAncestors of the node at index i, nearest first
currentAncestors(tree, i) == AncestorCache(tree, i)[i]

\* the node types the switch of the visitor has a handler for
HandledTypes == {"heading", "strong", "emphasis", "delete", "inlineCode", "code", "link",
                 "image", "blockquote", "listItem", "thematicBreak"}

\* The handler of the node at index i throws: hasValidPosition reads
\* position.start.offset of a broken position, and processEmphasis reads that
\* of its nearest strong ancestor.  Both happen before any range is added.
Throws(tree, i, text) ==
    LET node      == tree[i]
        ancestors == currentAncestors(tree, i)
        strongs   == {a \in 1..Len(ancestors) : ancestors[a].type = "strong"}
        parentStrong == ancestors[CHOOSE a \in strongs : \A b \in strongs : a <= b]
    IN  /\ node.type \in HandledTypes
        /\ \/ node.position = "broken"
           \/ /\ node.type = "emphasis"
              /\ node.position = "offsets"
              /\ getItalicMarker(text, node.start) # <<>>
              /\ strongs # {}
              /\ parentStrong.position = "broken"

\* the visitor callback: the ranges the node at index i adds and the
\* blockquote positions processed after it; an error of the handler is caught
processNode(tree, i, text, processedPositions) ==
    LET node == tree[i]
        Adds(decs) == [decorations |-> decs, processedPositions |-> processedPositions]
    IN  CASE Throws(tree, i, text)       -> Adds(<<>>)
          [] node.type = "heading"       -> Adds(processHeading(node, text))
          [] node.type = "strong"        -> Adds(processStrong(node, text,
                                                         currentAncestors(tree, i)))
          [] node.type = "emphasis"      -> Adds(processEmphasis(node, text,
                                                           currentAncestors(tree, i)))
          [] node.type = "delete"        -> Adds(processStrikethrough(node, text))
          [] node.type = "inlineCode"    -> Adds(processInlineCode(node, text))
          [] node.type = "code"          -> Adds(processCodeBlock(node, text))
          [] node.type = "link"          -> Adds(processLink(node, text))
          [] node.type = "image"         -> Adds(processImage(node, text))
          [] node.type = "blockquote"    -> processBlockquote(node, text, processedPositions)
          [] node.type = "listItem"      -> Adds(processListItem(node, text))
          [] node.type = "thematicBreak" -> Adds(processThematicBreak(node, text))
          [] OTHER                       -> Adds(<<>>)

\* variant: an error of a handler ends the visit
RECURSIVE VisitFromUncaught(_, _, _, _)
VisitFromUncaught(tree, i, text, processedPositions) ==
    IF i > Len(tree) \/ Throws(tree, i, text) THEN <<>>
    ELSE LET visited == processNode(tree, i, text, processedPositions)
         IN  visited.decorations
             \o VisitFromUncaught(tree, i + 1, text, visited.processedPositions)

\* the visit from the node at index i on
RECURSIVE VisitFrom(_, _, _, _)
VisitFrom(tree, i, text, processedPositions) ==
    IF i > Len(tree) THEN <<>>
    ELSE LET visited == processNode(tree, i, text, processedPositions)
         IN  visited.decorations \o VisitFrom(tree, i + 1, text, visited.processedPositions)

\* the blockquote positions processed once the visit from index i on is over
RECURSIVE ProcessedFrom(_, _, _, _)
ProcessedFrom(tree, i, text, processedPositions) ==
    IF i > Len(tree) THEN processedPositions
    ELSE ProcessedFrom(tree, i + 1, text,
             IF tree[i].type = "blockquote"
             THEN processNode(tree, i, text, processedPositions).processedPositions
             ELSE processedPositions)

\* variant: the set of an earlier pass is used again
keptProcessedPositions(previous) == previous

\* const processedBlockquotePositions = new Set<number>(): a set of its own
\* for each pass, empty whatever positions the pass before it processed
newProcessedPositions(previous) == {}

\* processAST in a pass that follows one which processed the positions previous
processASTPass(tree, text, previous) ==
    VisitFrom(tree, 1, text, newProcessedPositions(previous))

\* the positions a pass has processed when it ends
ProcessedBy(tree, text, previous) ==
    ProcessedFrom(tree, 1, text, newProcessedPositions(previous))

processAST(tree, text) == processASTPass(tree, text, {})

\* the regex loop of handleEmptyImageAlt from offset pos; decs grows as it goes
RECURSIVE EmptyAltFrom(_, _, _)
EmptyAltFrom(text, pos, decs) ==
    LET p == IndexOf(text, <<"!", "[", "]">>, pos)
    IN  IF p = -1 THEN decs
        ELSE LET isCovered == \E i \in 1..Len(decs) :
                                  decs[i].startPos <= p /\ decs[i].endPos > p
             IN  EmptyAltFrom(text, p + 3,
                     IF isCovered THEN decs
                     ELSE decs \o <<Dec(p, p + 2, "hide"), Dec(p + 2, p + 3, "hide")>>)

\* variant: every '![]' gets the two ranges, covered or not
handleEmptyImageAltEverywhere(text, decs) == decs \o EmptyAltFrom(text, 0, <<>>)

handleEmptyImageAlt(text, decs) ==
    IF IndexOf(text, <<"!", "[">>, 0) = -1 THEN decs ELSE EmptyAltFrom(text, 0, decs)

\* variant: a sort that puts a range before those of equal startPos
RECURSIVE InsertSortedBefore(_, _)
InsertSortedBefore(sorted, d) ==
    IF sorted = <<>> THEN <<d>>
    ELSE IF sorted[Len(sorted)].startPos < d.startPos THEN Append(sorted, d)
    ELSE Append(InsertSortedBefore(SubSeq(sorted, 1, Len(sorted) - 1), d),
                sorted[Len(sorted)])

\* decorations.sort((a, b) => a.startPos - b.startPos): a stable sort
RECURSIVE InsertSorted(_, _)
InsertSorted(sorted, d) ==
    IF sorted = <<>> THEN <<d>>
    ELSE IF sorted[Len(sorted)].startPos <= d.startPos THEN Append(sorted, d)
    ELSE Append(InsertSorted(SubSeq(sorted, 1, Len(sorted) - 1), d), sorted[Len(sorted)])

RECURSIVE SortByStart(_)
SortByStart(decs) ==
    IF decs = <<>> THEN <<>>
    ELSE InsertSorted(SortByStart(SubSeq(decs, 1, Len(decs) - 1)), decs[Len(decs)])

\* The argument of extractDecorations as a JavaScript value: a string with
\* its characters, or undefined, null, or a number.
Str(chars) == [type |-> "string", chars |-> chars]
Undefined  == [type |-> "undefined"]
Null       == [type |-> "object"]
Num        == [type |-> "number"]

\* What the grammar may do wrong: nothing; processor.parse throws; or the node
\* at index `at` of the tree comes without position, or with a broken one.
NoFault == [kind |-> "none"]
ParseThrows == [kind |-> "parse"]
PositionFault(at, position) == [kind |-> "position", at |-> at, position |-> position]

\* this.processor.parse(normalizedText) when it returns
parse(normalizedText, fault) ==
    IF fault.kind = "position"
    THEN [mdast(normalizedText) EXCEPT ![fault.at].position = fault.position]
    ELSE mdast(normalizedText)

\* what one run of extractDecorations leaves: its locals normalizedText, ast
\* and decorations (as it is before the sort) and what it returns; a local the
\* run does not get to is empty
Run(normalizedText, ast, handled, decorations) ==
    [normalizedText |-> normalizedText, ast |-> ast, handled |-> handled,
     decorations |-> decorations, result |-> SortByStart(decorations)]

\* the run from the end of processAST on; handled is what the handlers added
RunHandled(normalizedText, ast, handled) ==
    Run(normalizedText, ast, handled, handleEmptyImageAlt(normalizedText, handled))

\* the run from the parsed tree on
RunOnTree(normalizedText, ast, previous) ==
    RunHandled(normalizedText, ast, processASTPass(ast, normalizedText, previous))

\* the run from the normalized text on: the try block
RunOnText(normalizedText, fault, previous) ==
    IF fault.kind = "parse" THEN Run(normalizedText, <<>>, <<>>, <<>>)
    ELSE RunOnTree(normalizedText, parse(normalizedText, fault), previous)

\* a run of extractDecorations on a parser whose pass before it, if any,
\* processed the blockquote positions previous
extractDecorationsPass(value, fault, previous) ==
    IF value.type # "string" \/ value.chars = <<>> THEN Run(<<>>, <<>>, <<>>, <<>>)
    ELSE RunOnText(normalize(value.chars), fault, previous)

\* the first run of a parser
extractDecorationsRun(value, fault) == extractDecorationsPass(value, fault, {})

extractDecorationsOf(value, fault) == extractDecorationsRun(value, fault).result

extractDecorations(text) == extractDecorationsOf(Str(text), NoFault)

\* the extraction of every text of the model, computed once
Extracted == [t \in DocTexts |-> extractDecorations(t)]

(***************************************************************************)
(* Host geometry: positions, ranges and selections of the editor API, as   *)
(* the repository's stand-in for it implements them.                       *)
(***************************************************************************)

Pos(l, c) == [line |-> l, character |-> c]
Rng(s, e) == [start |-> s, end |-> e]

\* a cursor, and a selection from one position to a later one
Cursor(l, c) == Rng(Pos(l, c), Pos(l, c))
isEmpty(sel) == sel.start = sel.end

\* the offset just after the last "\n" of text (0 when it has none)
RECURSIVE LastLineStart(_)
LastLineStart(text) ==
    IF text = <<>> THEN 0
    ELSE IF text[Len(text)] = "\n" THEN Len(text)
    ELSE LastLineStart(SubSeq(text, 1, Len(text) - 1))

\* TextDocument.positionAt: text.substring(0, offset).split('\n')
positionAt(text, offset) ==
    LET prefix == Substring(text, 0, Max(offset, 0))
    IN  Pos(Cardinality({i \in 1..Len(prefix) : prefix[i] = "\n"}),
            Len(prefix) - LastLineStart(prefix))

\* Range.contains(position)
contains(range, position) ==
    /\ \/ range.start.line < position.line
       \/ range.start.line = position.line /\ range.start.character <= position.character
    /\ \/ range.end.line > position.line
       \/ range.end.line = position.line /\ range.end.character >= position.character

\* Range.intersection(other); defined is FALSE when it returns undefined
intersection(range, other) ==
    LET start == Pos(Max(range.start.line, other.start.line),
                     Max(range.start.character, other.start.character))
        end   == Pos(Min(range.end.line, other.end.line),
                     Min(range.end.character, other.end.character))
    IN  IF start.line > end.line
           \/ (start.line = end.line /\ start.character > end.character)
        THEN [defined |-> FALSE]
        ELSE [defined |-> TRUE, start |-> start, end |-> end]

\* the number of lines of a text, for the host's valid positions
LineCount(text) == 1 + Cardinality({i \in 1..Len(text) : text[i] = "\n"})

\* TextDocument.lineAt(line).text: the line without its terminator
RECURSIVE LineStartOffset(_, _, _)
LineStartOffset(text, line, from) ==
    IF line = 0 THEN from
    ELSE LineStartOffset(text, line - 1, IndexOfChar(text, "\n", from) + 1)

lineAt(text, line) ==
    LET from == LineStartOffset(text, line, 0)
        nl   == IndexOfChar(text, "\n", from)
        to   == IF nl = -1 THEN Len(text) ELSE nl
        raw  == Substring(text, from, to)
    IN  IF raw # <<>> /\ raw[Len(raw)] = "\r" THEN SubSeq(raw, 1, Len(raw) - 1) ELSE raw

(***************************************************************************)
(* Decorator: offset mapping, selection filter, application                *)
(***************************************************************************)

\* variant: a target at the "\n" of a CRLF pair is mapped to the "\n"
RECURSIVE MapWalkToLineFeed(_, _, _, _)
MapWalkToLineFeed(originalText, normalizedPos, i, normalizedIndex) ==
    IF i >= Len(originalText) THEN Len(originalText)
    ELSE IF CharAt(originalText, i) = "\r" /\ i + 1 < Len(originalText)
            /\ CharAt(originalText, i + 1) = "\n"
    THEN IF normalizedIndex = normalizedPos THEN i + 1
         ELSE MapWalkToLineFeed(originalText, normalizedPos, i + 2, normalizedIndex + 1)
    ELSE IF normalizedIndex = normalizedPos THEN i
         ELSE MapWalkToLineFeed(originalText, normalizedPos, i + 1, normalizedIndex + 1)

\* the walk of mapNormalizedToOriginal from original index i
RECURSIVE MapWalk(_, _, _, _)
MapWalk(originalText, normalizedPos, i, normalizedIndex) ==
    IF i >= Len(originalText) THEN Len(originalText)
    ELSE IF CharAt(originalText, i) = "\r" /\ i + 1 < Len(originalText)
            /\ CharAt(originalText, i + 1) = "\n"
    THEN IF normalizedIndex = normalizedPos THEN i
         ELSE MapWalk(originalText, normalizedPos, i + 2, normalizedIndex + 1)
    ELSE IF normalizedIndex = normalizedPos THEN i
         ELSE MapWalk(originalText, normalizedPos, i + 1, normalizedIndex + 1)

\* variant: offsets are taken to be the same in both texts
mapNormalizedToOriginalIdentity(normalizedPos, originalText) == normalizedPos

mapNormalizedToOriginal(normalizedPos, originalText) ==
    IF originalText = <<>> THEN normalizedPos
    ELSE IF IndexOf(originalText, <<"\r", "\n">>, 0) = -1 THEN normalizedPos
    ELSE MapWalk(originalText, normalizedPos, 0, 0)

\* createRange; docText is the text of the active editor's document
createRange(startPos, endPos, originalText, docText) ==
    Rng(positionAt(docText, mapNormalizedToOriginal(startPos, originalText)),
        positionAt(docText, mapNormalizedToOriginal(endPos, originalText)))

\* selections: the active editor's selections; selectedRanges: its non-empty ones
isRangeSelected(range, selectedRanges, sels) ==
    \/ \E i \in 1..Len(sels) : isEmpty(sels[i]) /\ contains(range, sels[i].start)
    \/ \E i \in 1..Len(selectedRanges) : intersection(range, selectedRanges[i]).defined

\* variant: no line-based check
isLineOfRangeSelectedNever(range, selectedLines) == FALSE

\* variant: only the line the range starts on is looked up
isLineOfRangeSelectedStartOnly(range, selectedLines) ==
    selectedLines # {} /\ range.start.line \in selectedLines

isLineOfRangeSelected(range, selectedLines) ==
    /\ selectedLines # {}
    /\ \E line \in range.start.line..range.end.line : line \in selectedLines

\* the decorations the filter keeps, in order, each with its range
RECURSIVE KeepFrom(_, _, _, _, _, _)
KeepFrom(decorations, i, originalText, docText, sels, selectedLines) ==
    IF i > Len(decorations) THEN <<>>
    ELSE LET range == createRange(decorations[i].startPos, decorations[i].endPos,
                                  originalText, docText)
             selectedRanges == SelectSeq(sels, LAMBDA s : ~isEmpty(s))
             rest == KeepFrom(decorations, i + 1, originalText, docText, sels, selectedLines)
         IN  IF isRangeSelected(range, selectedRanges, sels)
                \/ isLineOfRangeSelected(range, selectedLines)
             THEN rest
             ELSE <<[type |-> decorations[i].type, range |-> range]>> \o rest

\* variant: the ranges of a type are listed last first
RangesOfTypeReversed(kept, type) ==
    LET picked == SelectSeq(kept, LAMBDA k : k.type = type)
    IN  [i \in 1..Len(picked) |-> picked[Len(picked) + 1 - i].range]

RECURSIVE RangesOfType(_, _)
RangesOfType(kept, type) ==
    IF kept = <<>> THEN <<>>
    ELSE (IF Head(kept).type = type THEN <<Head(kept).range>> ELSE <<>>)
         \o RangesOfType(Tail(kept), type)

\* filterDecorations: the map from type to ranges (its keys are the types kept)
filterDecorations(decorations, originalText, docText, sels) ==
    LET selectedLines ==
            UNION {sels[i].start.line..sels[i].end.line : i \in 1..Len(sels)}
    IN  Const(KeepFrom(decorations, 1, originalText, docText, sels, selectedLines),
              LAMBDA kept :
                [t \in {kept[i].type : i \in 1..Len(kept)} |-> RangesOfType(kept, t)])

\* the selections of the model: those the user makes, and a lone cursor
\* anywhere in the first two lines
SelectionChoices ==
    { <<Cursor(0, 0)>>, <<Cursor(0, 3)>>, <<Cursor(0, 4)>>, <<Cursor(1, 1)>>,
      <<Rng(Pos(0, 1), Pos(0, 3))>>, <<Rng(Pos(0, 3), Pos(1, 0))>>,
      <<Cursor(1, 2), Cursor(0, 0)>>, <<Cursor(0, 1), Cursor(0, 0)>> }

CursorChoices == {<<Cursor(l, c)>> : l \in 0..1, c \in 0..7}

\* the filter's result for every text and selection of the model, computed once
Filtered ==
    [text \in DocTexts, sels \in SelectionChoices \cup CursorChoices |->
        filterDecorations(extractDecorations(text), text, text, sels)]

\* filterDecorations, read from the table where the table has the case
Filter(decorations, originalText, docText, sels) ==
    IF /\ originalText = docText
       /\ <<docText, sels>> \in DOMAIN Filtered
       /\ decorations = Extracted[docText]
    THEN Filtered[docText, sels]
    ELSE filterDecorations(decorations, originalText, docText, sels)

\* the keys of decorationTypeMap, in its order
decorationTypeMap ==
    << "hide", "bold", "italic", "boldItalic", "strikethrough", "code", "codeBlock",
       "heading", "heading1", "heading2", "heading3", "heading4", "heading5",
       "heading6", "link", "image", "blockquote", "listItem", "horizontalRule",
       "checkboxUnchecked", "checkboxChecked" >>

DecorationTypes == {decorationTypeMap[i] : i \in 1..Len(decorationTypeMap)}

\* variant: setDecorations is called for the types that have ranges only
applyDecorationsPresentOnly(filteredDecorations) ==
    LET present == SelectSeq(decorationTypeMap, LAMBDA t : t \in DOMAIN filteredDecorations)
    IN  [i \in 1..Len(present) |->
            [type |-> present[i], ranges |-> filteredDecorations[present[i]]]]

\* applyDecorations: the setDecorations calls it makes, in order
applyDecorations(filteredDecorations) ==
    [i \in 1..Len(decorationTypeMap) |->
        [type   |-> decorationTypeMap[i],
         ranges |-> IF decorationTypeMap[i] \in DOMAIN filteredDecorations
                    THEN filteredDecorations[decorationTypeMap[i]] ELSE <<>>]]

\* clearAllDecorations: the setDecorations calls it makes
clearAllDecorations ==
    [i \in 1..Len(decorationTypeMap) |-> [type |-> decorationTypeMap[i], ranges |-> <<>>]]

\* TextEditor.setDecorations, call after call: the ranges an editor shows per type
RECURSIVE setDecorations(_, _)
setDecorations(shownOfEditor, calls) ==
    IF calls = <<>> THEN shownOfEditor
    ELSE setDecorations([shownOfEditor EXCEPT ![Head(calls).type] = Head(calls).ranges],
                        Tail(calls))

(***************************************************************************)
(* State                                                                   *)
(***************************************************************************)

VARIABLES
    docs,                 \* host: uri -> [version, text] of each open document
    selections,           \* host: uri -> the selections of the document's editor
    shown,                \* host: uri -> type -> the ranges the editor shows
    windowActive,         \* host: vscode.window.activeTextEditor (NoEditor: undefined)
    pendingEdits,         \* host: workspace.applyEdit requests not yet applied
    timers,               \* host: the setTimeout timers that are pending
    timerSeq,             \* host: number of timers created so far
    activeEditor,         \* Decorator.activeEditor
    decorationCache,      \* Decorator.decorationCache: uri -> CacheEntry
    accessCounter,        \* Decorator.accessCounter
    pendingUpdateVersion, \* Decorator.pendingUpdateVersion: uri -> version
    updateTimeout,        \* Decorator.updateTimeout (NoTimer: undefined)
    idleCallbackHandle,   \* Decorator.idleCallbackHandle (NoTimer: undefined)
    decorationsEnabled,   \* Decorator.decorationsEnabled
    disposed,             \* the extension was deactivated
    events,               \* number of host events so far
    last                  \* what the last step did (observation only)

vars == << docs, selections, shown, windowActive, pendingEdits, timers, timerSeq,
           activeEditor, decorationCache, accessCounter, pendingUpdateVersion,
           updateTimeout, idleCallbackHandle, decorationsEnabled, disposed,
           events, last >>

\* documents are named by numbers; 0 is no editor, and no timer handle
NoEditor == 0
NoTimer  == 0

maxCacheSize == 10

\* TextDocument.languageId of each document of the model
languageId(uri) ==
    CASE uri = 2 -> "mdx"
      [] uri = 3 -> "typescript"
      [] OTHER   -> "markdown"

\* the empty function, for the maps
EmptyMap == [u \in {} |-> 0]

MapPut(m, k, v) == [u \in DOMAIN m \cup {k} |-> IF u = k THEN v ELSE m[u]]
MapDelete(m, k) == [u \in DOMAIN m \ {k} |-> m[u]]

NoShown == [t \in DecorationTypes |-> <<>>]

\* what a step is observed to do; every action starts from Quiet(op)
Quiet(op) ==
    [op          |-> op,
     target      |-> NoEditor,   \* the editor setDecorations was called on
     calls       |-> <<>>,       \* the setDecorations calls of the step, in order
     applied     |-> FALSE,      \* applyDecorations ran
     extractions |-> 0,          \* runs of extractDecorations
     lookups     |-> <<>>,       \* the cache lookups of the step and their results
     evicted     |-> {},         \* uris evictLRU removed
     cancelled   |-> {},         \* pending timers that clearTimeout removed
     toggled     |-> FALSE,      \* handleCheckboxClick toggled a checkbox
     wiped       |-> {},         \* types whose ranges a call replaced by none
     editor      |-> NoEditor,   \* event.textEditor of a selection event
     fired       |-> NoTimer]    \* the timer whose callback ran

\* the whole state as one record, so that handlers compose
State(op) ==
    [docs |-> docs, selections |-> selections, shown |-> shown,
     windowActive |-> windowActive, pendingEdits |-> pendingEdits,
     timers |-> timers, timerSeq |-> timerSeq, activeEditor |-> activeEditor,
     decorationCache |-> decorationCache, accessCounter |-> accessCounter,
     pendingUpdateVersion |-> pendingUpdateVersion, updateTimeout |-> updateTimeout,
     idleCallbackHandle |-> idleCallbackHandle,
     decorationsEnabled |-> decorationsEnabled, disposed |-> disposed,
     events |-> events, last |-> Quiet(op)]

\* the state a handler leaves becomes the next state
Commit(s) ==
    \E r \in {s} :
        /\ docs' = r.docs
        /\ selections' = r.selections
        /\ shown' = r.shown
        /\ windowActive' = r.windowActive
        /\ pendingEdits' = r.pendingEdits
        /\ timers' = r.timers
        /\ timerSeq' = r.timerSeq
        /\ activeEditor' = r.activeEditor
        /\ decorationCache' = r.decorationCache
        /\ accessCounter' = r.accessCounter
        /\ pendingUpdateVersion' = r.pendingUpdateVersion
        /\ updateTimeout' = r.updateTimeout
        /\ idleCallbackHandle' = r.idleCallbackHandle
        /\ decorationsEnabled' = r.decorationsEnabled
        /\ disposed' = r.disposed
        /\ events' = r.events
        /\ last' = r.last

\* extractDecorations, read from the table for the texts of the model
Extract(text) == IF text \in DocTexts THEN Extracted[text] ELSE extractDecorations(text)

(***************************************************************************)
(* Decorator: the cache                                                    *)
(***************************************************************************)

\* variant: only an entry older than the document is a miss
getCachedDecorationsNotOlder(s, document) ==
    IF document \notin DOMAIN s.decorationCache
    THEN [hit |-> FALSE, decorations |-> <<>>]
    ELSE IF s.decorationCache[document].version < s.docs[document].version
    THEN [hit |-> FALSE, decorations |-> <<>>]
    ELSE [hit |-> TRUE, decorations |-> s.decorationCache[document].decorations]

\* getCachedDecorations: hit is FALSE where the source returns null
getCachedDecorations(s, document) ==
    IF document \notin DOMAIN s.decorationCache
    THEN [hit |-> FALSE, decorations |-> <<>>]
    ELSE IF s.decorationCache[document].version # s.docs[document].version
    THEN [hit |-> FALSE, decorations |-> <<>>]
    ELSE [hit |-> TRUE, decorations |-> s.decorationCache[document].decorations]

\* variant: the entry accessed last is the one evicted
evictMRU(s) ==
    LET cache == s.decorationCache
    IN  IF DOMAIN cache = {} THEN s
        ELSE LET mruKey == CHOOSE k \in DOMAIN cache :
                               \A j \in DOMAIN cache :
                                   cache[k].lastAccessed >= cache[j].lastAccessed
             IN  [s EXCEPT !.decorationCache = MapDelete(cache, mruKey),
                           !.last.evicted = @ \cup {mruKey}]

evictLRU(s) ==
    LET cache == s.decorationCache
    IN  IF DOMAIN cache = {} THEN s
        ELSE LET lruKey == CHOOSE k \in DOMAIN cache :
                               \A j \in DOMAIN cache :
                                   cache[k].lastAccessed <= cache[j].lastAccessed
             IN  [s EXCEPT !.decorationCache = MapDelete(cache, lruKey),
                           !.last.evicted = @ \cup {lruKey}]

\* variant: an entry is stored without evicting another
setCachedDecorationsNoEvict(s, document, decorations, text) ==
    [s EXCEPT !.decorationCache =
                  MapPut(@, document,
                         [version      |-> s.docs[document].version,
                          decorations  |-> decorations,
                          text         |-> text,
                          lastAccessed |-> s.accessCounter + 1]),
              !.accessCounter = @ + 1]

setCachedDecorations(s, document, decorations, text) ==
    LET s1 == IF Cardinality(DOMAIN s.decorationCache) >= maxCacheSize
                 /\ document \notin DOMAIN s.decorationCache
              THEN evictLRU(s) ELSE s
    IN  [s1 EXCEPT !.decorationCache =
                       MapPut(@, document,
                              [version      |-> s.docs[document].version,
                               decorations  |-> decorations,
                               text         |-> text,
                               lastAccessed |-> s.accessCounter + 1]),
                   !.accessCounter = @ + 1]

\* variant: a content change empties the cache
invalidateCacheAll(s, document) ==
    [s EXCEPT !.decorationCache = EmptyMap]

invalidateCache(s, document) ==
    [s EXCEPT !.decorationCache = MapDelete(@, document)]

\* clearCache(documentUri?): all is TRUE when no uri is given
clearCache(s, all, documentUri) ==
    IF all THEN [s EXCEPT !.decorationCache = EmptyMap]
    ELSE [s EXCEPT !.decorationCache = MapDelete(@, documentUri)]

isDocumentStale(s, document) ==
    IF document \notin DOMAIN s.decorationCache THEN FALSE
    ELSE s.decorationCache[document].version # s.docs[document].version

\* parseDocument: the state after it, and the decorations it returns
parseDocument(s, document) ==
    LET cached == getCachedDecorations(s, document)
        stored == document \in DOMAIN s.decorationCache
        looked == [s EXCEPT !.last.lookups =
                       Append(@, [uri |-> document,
                                  version |-> s.docs[document].version,
                                  stored |-> stored,
                                  storedVersion |->
                                      IF stored THEN s.decorationCache[document].version
                                      ELSE 0,
                                  hit |-> cached.hit,
                                  returned |-> Len(cached.decorations)])]
    IN  IF cached.hit
        THEN [state |-> IF document \in DOMAIN looked.decorationCache
                        THEN [looked EXCEPT
                                 !.decorationCache[document].lastAccessed =
                                     looked.accessCounter + 1,
                                 !.accessCounter = @ + 1]
                        ELSE looked,
              decorations |-> cached.decorations]
        ELSE LET documentText == s.docs[document].text
                 decorations  == Extract(documentText)
                 parsed == [looked EXCEPT !.last.extractions = @ + 1]
             IN  [state |-> setCachedDecorations(parsed, document, decorations,
                                                 documentText),
                  decorations |-> decorations]

(***************************************************************************)
(* Decorator: updates                                                      *)
(***************************************************************************)

isMarkdownDocument(s) ==
    /\ s.activeEditor # NoEditor
    /\ languageId(s.activeEditor) \in {"markdown", "md", "mdx"}

\* setDecorations calls made on the active editor
CallSetDecorations(s, calls) ==
    Const(setDecorations(s.shown[s.activeEditor], calls), LAMBDA after :
      [s EXCEPT !.shown[s.activeEditor] = after,
                !.last.calls = @ \o calls,
                !.last.target = s.activeEditor,
                !.last.wiped = {t \in DecorationTypes :
                                   s.shown[s.activeEditor][t] # <<>> /\ after[t] = <<>>}])

\* variant: whatever is stored for the document is applied, of any version
updateDecorationsInternalUnversioned(s) ==
    IF s.activeEditor = NoEditor THEN s
    ELSE IF ~s.decorationsEnabled THEN s
    ELSE IF ~isMarkdownDocument(s) THEN s
    ELSE LET document == s.activeEditor
             stored   == document \in DOMAIN s.decorationCache
             parsed   == IF stored
                         THEN [state |-> s,
                               decorations |-> s.decorationCache[document].decorations]
                         ELSE parseDocument(s, document)
             s1       == parsed.state
             filtered == filterDecorations(parsed.decorations,
                                           s1.decorationCache[document].text,
                                           s1.docs[document].text,
                                           s1.selections[document])
         IN  [CallSetDecorations(s1, applyDecorations(filtered))
                 EXCEPT !.last.applied = TRUE]

updateDecorationsInternal(s) ==
    IF s.activeEditor = NoEditor THEN s
    ELSE IF ~s.decorationsEnabled THEN s
    ELSE IF ~isMarkdownDocument(s) THEN s
    ELSE Const(parseDocument(s, s.activeEditor), LAMBDA parsed :
           LET document == s.activeEditor
               s1       == parsed.state
               hasText  == document \in DOMAIN s1.decorationCache
                           /\ s1.decorationCache[document].text # <<>>
               originalText == IF hasText
                               THEN s1.decorationCache[document].text
                               ELSE s1.docs[document].text
           IN  IF isDocumentStale(s1, document) THEN s1
               ELSE Const(Filter(parsed.decorations, originalText,
                                 s1.docs[document].text, s1.selections[document]),
                          LAMBDA filtered :
                            Const(applyDecorations(filtered), LAMBDA calls :
                              [CallSetDecorations(s1, calls)
                                  EXCEPT !.last.applied = TRUE])))

\* the regex loop of handleCheckboxClick over the line, from offset from:
\* the index of the checkbox the cursor is on, or -1
RECURSIVE CheckboxAt(_, _, _)
CheckboxAt(lineText, from, cursorChar) ==
    IF from + 3 > Len(lineText) THEN -1
    ELSE IF CharAt(lineText, from) = "["
            /\ CharAt(lineText, from + 1) \in {" ", "x", "X"}
            /\ CharAt(lineText, from + 2) = "]"
    THEN IF cursorChar >= from /\ cursorChar <= from + 3 THEN from
         ELSE CheckboxAt(lineText, from + 3, cursorChar)
    ELSE CheckboxAt(lineText, from + 1, cursorChar)

\* handleCheckboxClick: the state after it, and whether a checkbox was toggled
handleCheckboxClick(s) ==
    IF s.activeEditor = NoEditor THEN [state |-> s, toggled |-> FALSE]
    ELSE LET selection == s.selections[s.activeEditor][1]
             document  == s.activeEditor
             lineText  == lineAt(s.docs[document].text, selection.end.line)
             bracketStart == CheckboxAt(lineText, 0, selection.end.character)
             bracketEnd   == bracketStart + 3
             newState  == IF CharAt(lineText, bracketStart + 1) = " " THEN "x" ELSE " "
         IN  IF ~isEmpty(selection) THEN [state |-> s, toggled |-> FALSE]
             ELSE IF bracketStart = -1 THEN [state |-> s, toggled |-> FALSE]
             ELSE [state |->
                      [s EXCEPT !.pendingEdits =
                                    Append(@, [uri       |-> document,
                                               line      |-> selection.end.line,
                                               character |-> bracketStart + 1,
                                               text      |-> newState]),
                                !.selections[document] =
                                    <<Cursor(selection.end.line, bracketEnd + 1)>>,
                                !.last.toggled = TRUE],
                   toggled |-> TRUE]

\* variant: a selection change schedules a debounced update like a content change
updateDecorationsForSelectionDebounced(s, kind) ==
    IF s.activeEditor = NoEditor \/ ~isMarkdownDocument(s) THEN s
    ELSE [s EXCEPT !.timers = @ \cup {[id |-> s.timerSeq + 1, kind |-> "debounce",
                                       cacheKey |-> s.activeEditor]},
                   !.timerSeq = @ + 1,
                   !.updateTimeout = s.timerSeq + 1]

\* kind: "Mouse", "Keyboard", "Command", or "undefined" when none is passed
updateDecorationsForSelection(s, kind) ==
    IF s.activeEditor = NoEditor \/ ~isMarkdownDocument(s) THEN s
    ELSE IF kind = "Mouse" /\ handleCheckboxClick(s).toggled
    THEN handleCheckboxClick(s).state
    ELSE updateDecorationsInternal(s)

\* clearTimeout(handle) of the host
clearTimeout(s, handle) ==
    [s EXCEPT !.timers = {t \in @ : t.id # handle},
              !.last.cancelled = @ \cup {t.id : t \in {x \in s.timers : x.id = handle}}]

\* setTimeout(callback, ...) of the host: the new timer's handle is s.timerSeq + 1
setTimeout(s, kind, cacheKey) ==
    [s EXCEPT !.timers = @ \cup {[id |-> s.timerSeq + 1, kind |-> kind,
                                  cacheKey |-> cacheKey]},
              !.timerSeq = @ + 1]

setActiveEditor(s, textEditor) ==
    LET s1 == IF s.updateTimeout # NoTimer
              THEN [clearTimeout(s, s.updateTimeout) EXCEPT !.updateTimeout = NoTimer]
              ELSE s
    IN  IF textEditor = NoEditor THEN s1
        ELSE updateDecorationsForSelection([s1 EXCEPT !.activeEditor = textEditor],
                                           "undefined")

\* variant: a pending idle callback is left alone when a new update is scheduled
updateDecorationsForDocumentKeepIdle(s, hasEvent, eventDocument) ==
    IF s.activeEditor = NoEditor \/ ~isMarkdownDocument(s) THEN s
    ELSE LET document == IF hasEvent THEN eventDocument ELSE s.activeEditor
             s1 == IF hasEvent THEN invalidateCache(s, document) ELSE s
             s2 == [s1 EXCEPT !.pendingUpdateVersion =
                                  MapPut(@, document, s.docs[document].version)]
             s3 == IF s2.updateTimeout # NoTimer
                   THEN [clearTimeout(s2, s2.updateTimeout) EXCEPT !.updateTimeout = NoTimer]
                   ELSE s2
         IN  [setTimeout(s3, "debounce", document) EXCEPT !.updateTimeout = s3.timerSeq + 1]

\* updateDecorationsForDocument(event): hasEvent is FALSE when called without one
updateDecorationsForDocument(s, hasEvent, eventDocument) ==
    IF s.activeEditor = NoEditor \/ ~isMarkdownDocument(s) THEN s
    ELSE LET document == IF hasEvent THEN eventDocument ELSE s.activeEditor
             cacheKey == document
             s1 == IF hasEvent THEN invalidateCache(s, document) ELSE s
             s2 == [s1 EXCEPT !.pendingUpdateVersion =
                                  MapPut(@, cacheKey, s.docs[document].version)]
             s3 == IF s2.updateTimeout # NoTimer
                   THEN [clearTimeout(s2, s2.updateTimeout) EXCEPT !.updateTimeout = NoTimer]
                   ELSE s2
             s4 == IF s3.idleCallbackHandle # NoTimer
                   THEN [clearTimeout(s3, s3.idleCallbackHandle)
                            EXCEPT !.idleCallbackHandle = NoTimer]
                   ELSE s3
         IN  [setTimeout(s4, "debounce", cacheKey) EXCEPT !.updateTimeout = s4.timerSeq + 1]

\* updateDecorations(immediate): the legacy entry point
updateDecorations(s, immediate) ==
    IF immediate THEN updateDecorationsForSelection(s, "undefined")
    ELSE updateDecorationsForDocument(s, FALSE, NoEditor)

updateDecorationsFromChange(s, eventDocument) ==
    updateDecorationsForDocument(invalidateCache(s, eventDocument), TRUE, eventDocument)

toggleDecorations(s) ==
    LET s1 == [s EXCEPT !.decorationsEnabled = ~@]
    IN  IF s1.decorationsEnabled
        THEN updateDecorationsForSelection(s1, "undefined")
        ELSE IF s1.activeEditor = NoEditor THEN s1
        ELSE CallSetDecorations(s1, clearAllDecorations)

dispose(s) ==
    LET s1 == IF s.updateTimeout # NoTimer
              THEN [clearTimeout(s, s.updateTimeout) EXCEPT !.updateTimeout = NoTimer]
              ELSE s
        s2 == IF s1.idleCallbackHandle # NoTimer
              THEN [clearTimeout(s1, s1.idleCallbackHandle)
                       EXCEPT !.idleCallbackHandle = NoTimer]
              ELSE s1
    IN  [s2 EXCEPT !.decorationCache = EmptyMap, !.pendingUpdateVersion = EmptyMap]

\* variant: the debounced update goes on only when the version has changed
debounceCallbackInverted(s, cacheKey) ==
    LET s1 == [s EXCEPT !.updateTimeout = NoTimer]
    IN  IF s1.activeEditor # NoEditor /\ cacheKey \in DOMAIN s1.pendingUpdateVersion
           /\ s1.docs[s1.activeEditor].version = s1.pendingUpdateVersion[cacheKey]
        THEN s1
        ELSE [s1 EXCEPT !.timers = @ \cup {[id |-> s1.timerSeq + 1, kind |-> "idle",
                                            cacheKey |-> cacheKey]},
                        !.timerSeq = @ + 1,
                        !.idleCallbackHandle = s1.timerSeq + 1]

\* the callback of the debounce timer set by updateDecorationsForDocument
debounceCallback(s, cacheKey) ==
    LET s1 == [s EXCEPT !.updateTimeout = NoTimer]
        hasLatest    == s1.activeEditor # NoEditor
        hasScheduled == cacheKey \in DOMAIN s1.pendingUpdateVersion
    IN  IF hasLatest /\ hasScheduled
           /\ s1.docs[s1.activeEditor].version # s1.pendingUpdateVersion[cacheKey]
        THEN s1
        ELSE [setTimeout(s1, "idle", cacheKey) EXCEPT !.idleCallbackHandle = s1.timerSeq + 1]

\* the callback handed to requestIdleCallback
idleCallback(s, cacheKey) ==
    LET s1 == updateDecorationsInternal([s EXCEPT !.idleCallbackHandle = NoTimer])
    IN  [s1 EXCEPT !.pendingUpdateVersion = MapDelete(@, cacheKey)]

(***************************************************************************)
(* The host and the extension's subscriptions (activate)                   *)
(***************************************************************************)

\* bound on the number of host events of a behaviour
MaxEvents == 4

\* the documents open in the editor window
Uris == {1, 2, 3}

\* the positions of a document: those positionAt gives for its offsets; a
\* line reaches to its "\n", so there is one between "\r" and "\n"
HostPositions(text) == {positionAt(text, offset) : offset \in 0..Len(text)}

ValidPos(text, p) == p \in HostPositions(text)

ValidSel(text, sels) ==
    \A i \in 1..Len(sels) : ValidPos(text, sels[i].start) /\ ValidPos(text, sels[i].end)

SelectionKinds == {"Mouse", "Keyboard"}

\* the host keeps an editor's selections inside its document
AdjustSel(text, sels) == IF ValidSel(text, sels) THEN sels ELSE <<Cursor(0, 0)>>

Init ==
    /\ docs = [u \in Uris |-> [version |-> 1,
                               text |-> IF u = 2 THEN TxtHeadEm ELSE TxtBold]]
    /\ selections = [u \in Uris |-> <<Cursor(0, 0)>>]
    /\ shown = [u \in Uris |-> NoShown]
    /\ windowActive = NoEditor
    /\ pendingEdits = <<>>
    /\ timers = {}
    /\ timerSeq = 0
    /\ activeEditor = NoEditor
    /\ decorationCache = EmptyMap
    /\ accessCounter = 0
    /\ pendingUpdateVersion = EmptyMap
    /\ updateTimeout = NoTimer
    /\ idleCallbackHandle = NoTimer
    /\ decorationsEnabled = TRUE
    /\ disposed = FALSE
    /\ events = 0
    /\ last = Quiet("init")

\* a host event: it is counted, and none is delivered to a deactivated extension
Event(op) == [State(op) EXCEPT !.events = @ + 1]

CanHandle == ~disposed /\ events < MaxEvents

\* onDidChangeActiveTextEditor: decorator.setActiveEditor(editor)
ChangeActiveEditor(e) ==
    /\ e # windowActive
    /\ Commit(setActiveEditor([Event("ChangeActiveEditor") EXCEPT !.windowActive = e], e))

\* onDidChangeTextEditorSelection of the editor e, the window's active one or
\* not: the listener does not look at event.textEditor,
\* decorator.updateDecorationsForSelection(event.kind)
ChangeSelection(e, sels, kind) ==
    /\ ValidSel(docs[e].text, sels)
    /\ Commit(updateDecorationsForSelection(
                  [Event("ChangeSelection") EXCEPT !.selections[e] = sels,
                                                   !.last.editor = e],
                  kind))

\* the document d now has text, one version later; the listener of
\* onDidChangeTextDocument passes the event on for the active editor's document
Changed(s, d, text) ==
    LET s1 == [s EXCEPT !.docs[d] = [version |-> @.version + 1, text |-> text],
                        !.selections[d] = AdjustSel(text, @)]
    IN  IF ~s1.disposed /\ s1.windowActive # NoEditor /\ d = s1.windowActive
        THEN updateDecorationsFromChange(s1, d)
        ELSE s1

ChangeTextDocument(d, text) ==
    Commit(Changed(Event("ChangeTextDocument"), d, text))

\* the text after the host has replaced the character at (line, character) by
\* e.text: the host keeps the range inside the line the document has by then,
\* so past the end of the line the replacement is an insertion
applyEdit(text, e) ==
    LET line  == Min(e.line, LineCount(text) - 1)
        from  == LineStartOffset(text, line, 0)
        len   == Len(lineAt(text, line))
        start == from + Min(e.character, len)
        end   == from + Min(e.character + 1, len)
    IN  SubSeq(text, 1, start) \o <<e.text>> \o SubSeq(text, end + 1, Len(text))

\* the host applies the i-th outstanding workspace edit, to the text the
\* document has by then; a request made before the extension was deactivated
\* is still applied, and then no listener is told
ApplyEdit(i) ==
    LET e == pendingEdits[i]
    IN  Commit(Changed([State("ApplyEdit") EXCEPT
                            !.pendingEdits = SubSeq(@, 1, i - 1) \o SubSeq(@, i + 1, Len(@))],
                       e.uri,
                       applyEdit(docs[e.uri].text, e)))

\* the command mdInline.toggleDecorations
ToggleDecorations ==
    Commit(toggleDecorations(Event("ToggleDecorations")))

\* a pending debounce timer fires
DebounceFire(t) ==
    /\ t.kind = "debounce"
    /\ Commit(debounceCallback([State("DebounceFire") EXCEPT !.timers = @ \ {t},
                                                            !.last.fired = t.id],
                               t.cacheKey))

\* a pending idle callback fires
IdleFire(t) ==
    /\ t.kind = "idle"
    /\ Commit(idleCallback([State("IdleFire") EXCEPT !.timers = @ \ {t},
                                                    !.last.fired = t.id],
                           t.cacheKey))

\* deactivate: the subscriptions are disposed of, the decorator among them
Deactivate ==
    Commit([dispose(Event("Deactivate")) EXCEPT !.disposed = TRUE])

\* a call of the decorator's public method updateDecorations(immediate)
UpdateDecorations(immediate) ==
    Commit(updateDecorations(Event("UpdateDecorations"), immediate))

Next ==
    \/ \E e \in DOMAIN docs \cup {NoEditor} : CanHandle /\ ChangeActiveEditor(e)
    \/ \E e \in DOMAIN docs, sels \in SelectionChoices, kind \in SelectionKinds :
           CanHandle /\ ChangeSelection(e, sels, kind)
    \/ \E d \in DOMAIN docs, text \in Texts : CanHandle /\ ChangeTextDocument(d, text)
    \/ \E i \in 1..Len(pendingEdits) : ApplyEdit(i)
    \/ CanHandle /\ ToggleDecorations
    \/ \E immediate \in BOOLEAN : CanHandle /\ UpdateDecorations(immediate)
    \/ \E t \in timers : DebounceFire(t)
    \/ \E t \in timers : IdleFire(t)
    \/ CanHandle /\ Deactivate

Spec == Init /\ [][Next]_vars

(***************************************************************************)
(* The cache under many documents: documents are opened one after another  *)
(* (each becomes the active editor), and the first few of them are also    *)
(* revisited, edited, closed and opened again, and cleared from the cache. *)
(***************************************************************************)

\* bound on the number of documents opened
MaxDocs == 12

\* the documents that are revisited and edited are the first HotDocs ones
HotDocs == 2

\* bound on the number of host events other than opening a document
MaxCacheEvents == 2

HotUris == (1..HotDocs) \cap DOMAIN docs

InitCache ==
    /\ docs = EmptyMap
    /\ selections = EmptyMap
    /\ shown = EmptyMap
    /\ windowActive = NoEditor
    /\ pendingEdits = <<>>
    /\ timers = {}
    /\ timerSeq = 0
    /\ activeEditor = NoEditor
    /\ decorationCache = EmptyMap
    /\ accessCounter = 0
    /\ pendingUpdateVersion = EmptyMap
    /\ updateTimeout = NoTimer
    /\ idleCallbackHandle = NoTimer
    /\ decorationsEnabled = TRUE
    /\ disposed = FALSE
    /\ events = 0
    /\ last = Quiet("init")

\* a document not open so far is opened and shown: it is the active editor
OpenDocument ==
    LET u == Cardinality(DOMAIN docs) + 1
        s == State("OpenDocument")
    IN  /\ ~disposed
        /\ u <= MaxDocs
        /\ Commit(setActiveEditor(
                      [s EXCEPT !.docs = MapPut(@, u, [version |-> 1, text |-> TxtBold]),
                                !.selections = MapPut(@, u, <<Cursor(0, 0)>>),
                                !.shown = MapPut(@, u, NoShown),
                                !.windowActive = u],
                      u))

\* Decorator.clearCache(documentUri?)
ClearCache(all, documentUri) ==
    Commit(clearCache(Event("ClearCache"), all, documentUri))

CanHandleCache == ~disposed /\ events < MaxCacheEvents

NextCache ==
    \/ OpenDocument
    \/ \E e \in HotUris : CanHandleCache /\ ChangeActiveEditor(e)
    \/ \E e \in DOMAIN docs : CanHandleCache /\ ChangeSelection(e, <<Cursor(0, 0)>>, "Keyboard")
    \/ \E d \in HotUris, text \in {TxtBold, TxtHeadEm} :
           CanHandleCache /\ ChangeTextDocument(d, text)
    \/ \E d \in HotUris : CanHandleCache /\ ClearCache(FALSE, d)
    \/ CanHandleCache /\ ClearCache(TRUE, NoEditor)
    \/ \E t \in timers : DebounceFire(t)
    \/ \E t \in timers : IdleFire(t)

SpecCache == InitCache /\ [][NextCache]_vars

(***************************************************************************)
(* The editor window with documents that are closed and opened again       *)
(***************************************************************************)

\* a document that is not shown is closed and opened again: the host counts
\* its versions from 1 again
ReopenDocument(d) ==
    /\ d # windowActive
    /\ docs[d].version > 1
    /\ Commit([Event("ReopenDocument") EXCEPT !.docs[d].version = 1])

NextReopen ==
    \/ Next
    \/ \E d \in DOMAIN docs : ~disposed /\ ReopenDocument(d)

SpecReopen == Init /\ [][NextReopen]_vars

(***************************************************************************)
(* The editor window with timers that fire: a pending setTimeout timer or  *)
(* idle callback is run by the host unless it is cancelled first.          *)
(***************************************************************************)

\* bound on the number of host events of a behaviour with timers that fire
MaxLiveEvents == 3

CanHandleLive == ~disposed /\ events < MaxLiveEvents

NextLive ==
    \/ \E e \in DOMAIN docs \cup {NoEditor} : CanHandleLive /\ ChangeActiveEditor(e)
    \/ \E e \in DOMAIN docs, sels \in SelectionChoices, kind \in SelectionKinds :
           CanHandleLive /\ ChangeSelection(e, sels, kind)
    \/ \E d \in DOMAIN docs, text \in Texts : CanHandleLive /\ ChangeTextDocument(d, text)
    \/ \E i \in 1..Len(pendingEdits) : ApplyEdit(i)
    \/ CanHandleLive /\ ToggleDecorations
    \/ \E immediate \in BOOLEAN : CanHandleLive /\ UpdateDecorations(immediate)
    \/ \E t \in timers : DebounceFire(t)
    \/ \E t \in timers : IdleFire(t)
    \/ CanHandleLive /\ Deactivate

LiveSpec ==
    /\ Init
    /\ [][NextLive]_vars
    /\ WF_vars(\E t \in timers : DebounceFire(t))
    /\ WF_vars(\E t \in timers : IdleFire(t))

(***************************************************************************)
(* The offset mapping on its own: createRange maps the two ends of a range *)
(* of the normalized text into the original text, for any text.            *)
(***************************************************************************)

\* bound on the length of the texts the mapping is applied to
MaxLen == 4

\* a character that is no line ending, and the two that make line endings
EolAlphabet == {"a", "\r", "\n"}

MapTexts == UNION {[1..n -> EolAlphabet] : n \in 0..MaxLen}

\* the editor window before any event, whatever `last` holds
Unstarted ==
    /\ docs = [u \in Uris |-> [version |-> 1,
                               text |-> IF u = 2 THEN TxtHeadEm ELSE TxtBold]]
    /\ selections = [u \in Uris |-> <<Cursor(0, 0)>>]
    /\ shown = [u \in Uris |-> NoShown]
    /\ windowActive = NoEditor
    /\ pendingEdits = <<>>
    /\ timers = {}
    /\ timerSeq = 0
    /\ activeEditor = NoEditor
    /\ decorationCache = EmptyMap
    /\ accessCounter = 0
    /\ pendingUpdateVersion = EmptyMap
    /\ updateTimeout = NoTimer
    /\ idleCallbackHandle = NoTimer
    /\ decorationsEnabled = TRUE
    /\ disposed = FALSE
    /\ events = 0

window == << docs, selections, shown, windowActive, pendingEdits, timers, timerSeq,
             activeEditor, decorationCache, accessCounter, pendingUpdateVersion,
             updateTimeout, idleCallbackHandle, decorationsEnabled, disposed, events >>

InitMap ==
    /\ Unstarted
    /\ last \in {[op |-> "text", text |-> t] : t \in MapTexts}

\* the two calls of mapNormalizedToOriginal in createRange, for the range
\* [startPos, endPos) of the normalized text
MapRange(startPos, endPos) ==
    /\ last' = [op       |-> "mapNormalizedToOriginal",
                text     |-> last.text,
                startPos |-> startPos,
                endPos   |-> endPos,
                start    |-> mapNormalizedToOriginal(startPos, last.text),
                end      |-> mapNormalizedToOriginal(endPos, last.text)]
    /\ UNCHANGED window

\* one call of mapNormalizedToOriginal, for any target
MapTarget(normalizedPos) ==
    /\ last.op = "text"
    /\ last' = [op            |-> "mapTarget",
                text          |-> last.text,
                normalizedPos |-> normalizedPos,
                mapped        |-> mapNormalizedToOriginal(normalizedPos, last.text)]
    /\ UNCHANGED window

NextMap ==
    \/ \E endPos \in 0..Len(normalize(last.text)) : \E startPos \in 0..endPos :
           MapRange(startPos, endPos)
    \/ \E normalizedPos \in 0..(MaxLen + 1) : MapTarget(normalizedPos)

SpecMap == InitMap /\ [][NextMap]_vars

(***************************************************************************)
(* The range extractor on its own: extractDecorations applied to documents *)
(* made of the blocks of the catalogue, with each kind of line ending, to  *)
(* values that are no text, and under the faults of the grammar.           *)
(***************************************************************************)

\* the documents: one to MaxBlocks blocks; two list blocks in a row would be
\* one list, which the catalogue does not hold
Documents ==
    {d \in UNION {[1..n -> 1..Len(Blocks)] : n \in 1..MaxBlocks} :
        \A k \in 1..(Len(d) - 1) : ~(IsList(Blocks[d[k]]) /\ IsList(Blocks[d[k + 1]]))}

\* the text of a document: its blocks with a blank line between them
RECURSIVE DocText(_)
DocText(d) ==
    IF Len(d) = 1 THEN Blocks[d[1]].text
    ELSE Blocks[d[1]].text \o BlankLine \o DocText(Tail(d))

\* the line endings a text may use
Eols == { <<"\n">>, <<"\r", "\n">>, <<"\r">> }

\* text with eol for each of its line endings
RECURSIVE WithEol(_, _)
WithEol(text, eol) ==
    IF text = <<>> THEN <<>>
    ELSE (IF Head(text) = "\n" THEN eol ELSE <<Head(text)>>) \o WithEol(Tail(text), eol)

\* bound on the number of blocks of a document the grammar is at fault on
MaxFaultBlocks == 1

\* the faults the grammar may show on a text
FaultsOf(text) ==
    {NoFault, ParseThrows}
    \cup {PositionFault(at, position) :
              at \in 1..Len(mdast(text)), position \in {"none", "broken"}}

\* before a call: the value handed to extractDecorations and the fault the
\* grammar will show
Input(value, fault) ==
    [op |-> "input", input |-> value, fault |-> fault, pass |-> 0, processed |-> {},
     first |-> <<>>]

\* after a call: the run it made, which pass of the parser it was, what the
\* first pass returned and the blockquote positions the pass processed
Ran(before, run) ==
    [op             |-> "extractDecorations",
     input          |-> before.input,
     fault          |-> before.fault,
     pass           |-> before.pass + 1,
     first          |-> IF before.pass = 0 THEN run.result ELSE before.first,
     processed      |-> ProcessedBy(run.ast, run.normalizedText, before.processed),
     normalizedText |-> run.normalizedText,
     ast            |-> run.ast,
     handled        |-> run.handled,
     decorations    |-> run.decorations,
     result         |-> run.result]

\* every document under every line ending, the documents of up to
\* MaxFaultBlocks blocks under every fault, and the values that are no text
InitParser ==
    /\ Unstarted
    /\ \/ \E d \in Documents, eol \in Eols :
              last = Input(Str(WithEol(DocText(d), eol)), NoFault)
       \/ \E d \in Documents :
              /\ Len(d) <= MaxFaultBlocks
              /\ \E f \in FaultsOf(DocText(d)) : last = Input(Str(DocText(d)), f)
       \/ \E v \in {Str(<<>>), Undefined, Null, Num} : last = Input(v, NoFault)

\* parser.extractDecorations(text): the first call of a parser, and a second
\* call with the same text
ExtractDecorations ==
    /\ \/ last.op = "input"
       \/ last.op = "extractDecorations" /\ last.pass = 1 /\ last.fault = NoFault
    /\ last' = Ran(last, extractDecorationsPass(last.input, last.fault, last.processed))
    /\ UNCHANGED window

NextParser == ExtractDecorations

SpecParser == InitParser /\ [][NextParser]_vars

(***************************************************************************)
(* The selection filter on its own: filterDecorations applied to lists of  *)
(* decorations over a document's text, with the selections of its editor.  *)
(***************************************************************************)

\* bound on the length of the documents the filter is applied to
MaxFilterLen == 4

\* a document's text has "\n" or "\r\n" line endings, never a lone "\r"
FilterTexts ==
    {t \in UNION {[1..n -> EolAlphabet] : n \in 1..MaxFilterLen} :
        \A i \in 1..Len(t) : t[i] = "\r" => i < Len(t) /\ t[i + 1] = "\n"}

FilterTypes == {"hide", "bold"}

\* the ranges of a normalized text of n characters
RangesOver(n) == {Dec(s, e, t) : s \in 0..n, e \in 0..n, t \in FilterTypes}

\* one decoration, of zero width at the least (processImage returns such a
\* range for an empty alt text), or two non-empty ones sorted by start as
\* extractDecorations returns them
DecorationLists(n) ==
    LET ranges == {d \in RangesOver(n) : d.startPos < d.endPos}
    IN  {<<d>> : d \in {r \in RangesOver(n) : r.startPos <= r.endPos}}
        \cup {<<de[1], de[2]>> :
                 de \in {x \in ranges \X ranges :
                            x[1].type = "hide" /\ x[1].startPos <= x[2].startPos}}

\* editor.selections: one selection or cursor, or two cursors
SelectionLists(text) ==
    LET positions == HostPositions(text)
        ordered == {pq \in positions \X positions :
                       \/ pq[1].line < pq[2].line
                       \/ pq[1].line = pq[2].line /\ pq[1].character <= pq[2].character}
    IN  {<<Rng(pq[1], pq[2])>> : pq \in ordered}
        \cup {<<Cursor(pq[1].line, pq[1].character), Cursor(pq[2].line, pq[2].character)>> :
                 pq \in {o \in ordered : o[1] # o[2]}}

InitFilter ==
    /\ Unstarted
    /\ \E text \in FilterTexts :
           \E decorations \in DecorationLists(Len(normalize(text))) :
               \E sels \in SelectionLists(text) :
                   last = [op |-> "filterInput", text |-> text,
                           decorations |-> decorations, sels |-> sels]

\* filterDecorations(decorations, originalText) with the editor showing the
\* document whose text is originalText
FilterDecorations ==
    /\ last.op = "filterInput"
    /\ last' = [op          |-> "filterDecorations",
                text        |-> last.text,
                decorations |-> last.decorations,
                sels        |-> last.sels,
                filtered    |-> filterDecorations(last.decorations, last.text,
                                                  last.text, last.sels)]
    /\ UNCHANGED window

NextFilter == FilterDecorations

SpecFilter == InitFilter /\ [][NextFilter]_vars

(***************************************************************************)
(* Properties                                                              *)
(***************************************************************************)

isMarkdown(uri) == uri # NoEditor /\ languageId(uri) \in {"markdown", "md", "mdx"}

\* the setDecorations calls that show, for the text and the selections the
\* editor of document d has now, the ranges extracted from that text
FreshCallsFor(text, sels) ==
    applyDecorations(Filter(Extract(text), text, text, sels))

FreshCalls(d) == FreshCallsFor(docs[d].text, selections[d])

\* C1: whenever ranges are applied, they are applied to the active editor from
\* a cache entry stored under the document's current version, and they are the
\* ranges extracted from the text the document has at that version.
C1_AppliedFromCurrentVersion ==
    last.applied =>
        /\ last.target = activeEditor
        /\ activeEditor \in DOMAIN decorationCache
        /\ decorationCache[activeEditor].version = docs[activeEditor].version
        /\ decorationCache[activeEditor].text = docs[activeEditor].text
        /\ decorationCache[activeEditor].decorations
               = Extract(docs[activeEditor].text)
        /\ last.calls = FreshCalls(activeEditor)

\* C1 witness: an idle callback applied ranges to a document that was edited,
\* and the ranges applied are not those of the document's first text
C1_Witness ==
    /\ last.applied
    /\ last.op = "IdleFire"
    /\ docs[last.target].version >= 2
    /\ docs[last.target].text = TxtHeadEm
    /\ \E i \in 1..Len(last.calls) : last.calls[i].ranges # <<>>

\* C2: a lookup is a hit exactly when an entry is stored for the document and
\* its version equals the document's version; otherwise (a later stored
\* version included) it is a miss and returns no ranges.
C2_HitIffSameVersion ==
    /\ \A i \in 1..Len(last.lookups) :
          LET l == last.lookups[i]
          IN  /\ l.hit <=> (l.stored /\ l.storedVersion = l.version)
              /\ ~l.hit => l.returned = 0
    /\ \A d \in DOMAIN docs :
          getCachedDecorations(State("lookup"), d).hit
              <=> /\ d \in DOMAIN decorationCache
                  /\ decorationCache[d].version = docs[d].version

\* C2 witness: a lookup found an entry stored under a later version than the
\* document has, and missed
C2_Witness ==
    \E i \in 1..Len(last.lookups) :
        /\ last.lookups[i].stored
        /\ last.lookups[i].storedVersion > last.lookups[i].version
        /\ ~last.lookups[i].hit

\* a content change of the active markdown document d happens in this step,
\* and the extension, not deactivated, is told of it
ContentChangeOnActive(d) ==
    /\ ~disposed
    /\ docs'[d].version > docs[d].version
    /\ d = windowActive
    /\ d = activeEditor
    /\ isMarkdown(d)

\* the step of a content change on the active markdown document: its cache
\* entry is gone, every timer that was pending is cancelled, and the one
\* timer pending afterwards is the new debounce timer
C3_Step ==
    \A d \in DOMAIN docs :
        ContentChangeOnActive(d) =>
            /\ d \notin DOMAIN decorationCache'
            /\ timers \cap timers' = {}
            /\ last'.cancelled = {t.id : t \in timers}
            /\ \E t \in timers' :
                  /\ timers' = {t}
                  /\ t.kind = "debounce"
                  /\ t.cacheKey = d
                  /\ t.id = updateTimeout'
                  /\ t.id > timerSeq
            /\ idleCallbackHandle' = NoTimer
            /\ pendingUpdateVersion'[d] = docs'[d].version

\* at most one debounced update is pending, and it is the one the decorator
\* holds the handle of
OnePending ==
    /\ Cardinality(timers) <= 1
    /\ \A t \in timers :
          \/ t.kind = "debounce" /\ t.id = updateTimeout
          \/ t.kind = "idle" /\ t.id = idleCallbackHandle

\* C3: every content change on the active markdown document deletes its cache
\* entry in the same step and cancels the pending debounce timer or idle
\* callback before scheduling a new one; at most one debounced update is
\* pending at any time, and a superseded one is no longer pending, so never runs.
C3_ChangeInvalidatesAndSupersedes == [][C3_Step]_vars /\ []OnePending

\* C3 witness: a content change has just cancelled a pending update and
\* scheduled another
C3_Witness ==
    /\ last.op = "ChangeTextDocument"
    /\ last.cancelled # {}
    /\ windowActive # NoEditor
    /\ isMarkdown(windowActive)
    /\ Cardinality(timers) = 1
    /\ windowActive \notin DOMAIN decorationCache

\* the cache holds an entry for d at the version d has
CachedAtCurrentVersion(d) ==
    /\ d \in DOMAIN decorationCache
    /\ decorationCache[d].version = docs[d].version

\* what a selection change does when it applies decorations: the timers are
\* left alone, no extraction on a hit, one on a miss, stored at the version
SelectionApplies ==
    /\ last'.applied
    /\ last'.target = windowActive
    /\ last'.calls = FreshCallsFor(docs'[windowActive].text, selections'[windowActive])
    /\ timers' = timers
    /\ updateTimeout' = updateTimeout
    /\ idleCallbackHandle' = idleCallbackHandle
    /\ last'.cancelled = {}
    /\ CachedAtCurrentVersion(windowActive) =>
          /\ last'.extractions = 0
          /\ decorationCache'[windowActive].decorations
                 = decorationCache[windowActive].decorations
    /\ ~CachedAtCurrentVersion(windowActive) => last'.extractions = 1
    /\ windowActive \in DOMAIN decorationCache'
    /\ decorationCache'[windowActive].version = docs'[windowActive].version
    /\ decorationCache'[windowActive].decorations = Extract(docs'[windowActive].text)

\* a selection change on the active markdown document happens in this step
SelectionChangeOnActive ==
    /\ last'.op = "ChangeSelection"
    /\ events' = events + 1
    /\ last'.editor = windowActive
    /\ isMarkdown(windowActive)

\* C4 as stated: every selection change on the active markdown document
\* applies decorations in the same step.
C4_Original == [][SelectionChangeOnActive => SelectionApplies]_vars

\* C4: with decorations enabled, a selection change on the active markdown
\* document, other than a mouse click that toggles a checkbox, applies
\* decorations in the same step and leaves the timers alone; on a cache hit
\* nothing is extracted, on a miss one extraction runs and is stored under the
\* current version. With decorations disabled, or on a mouse click that
\* toggles a checkbox, nothing is applied in that step.
C4_SelectionAppliesWhenEnabled ==
    [][SelectionChangeOnActive =>
          IF decorationsEnabled /\ ~last'.toggled
          THEN SelectionApplies
          ELSE ~last'.applied /\ last'.calls = <<>> /\ last'.extractions = 0]_vars

\* C4 witness: a selection change applied decorations after one extraction
\* while a debounce timer stayed pending
C4_Witness ==
    /\ last.op = "ChangeSelection"
    /\ last.editor = windowActive
    /\ last.applied
    /\ last.extractions = 1
    /\ updateTimeout # NoTimer
    /\ \E t \in timers : t.id = updateTimeout

MarkdownUris == {d \in Uris : isMarkdown(d)}

\* the versions a document can have within the bound on events
Versions == 2..(MaxLiveEvents + 1)

\* a content change has just given the active markdown document d version v,
\* with decorations enabled
ChangedTo(d, v) ==
    /\ last.op \in {"ChangeTextDocument", "ApplyEdit"}
    /\ windowActive = d
    /\ activeEditor = d
    /\ docs[d].version = v
    /\ decorationsEnabled
    /\ ~disposed
    /\ updateTimeout # NoTimer
    /\ pendingUpdateVersion[d] = v

\* the editor of d shows the decorations of d's text and the scheduler is idle
Settled(d) ==
    /\ timers = {}
    /\ updateTimeout = NoTimer
    /\ idleCallbackHandle = NoTimer
    /\ d \in DOMAIN decorationCache
    /\ decorationCache[d].version = docs[d].version
    /\ shown[d] = setDecorations(NoShown, FreshCalls(d))

\* a further content change, an editor switch, a toggle or a dispose occurred
Interrupted(d, v) ==
    \/ docs[d].version # v
    \/ windowActive # d
    \/ ~decorationsEnabled
    \/ disposed

\* C5: with decorations enabled, after a content change on the active markdown
\* document, if no further content change, editor switch, toggle or dispose
\* occurs and the timers fire, the decorations of the latest version are
\* eventually applied and no debounce timer or idle callback is pending;
\* selection changes in between do not prevent it.
C5_ChangeEventuallyApplied ==
    \A d \in MarkdownUris, v \in Versions :
        ChangedTo(d, v) ~> (Settled(d) \/ Interrupted(d, v))

\* C5 witness: after a content change and a selection change in between, the
\* idle callback applied the decorations of the changed text, and the
\* scheduler is idle
C5_Witness ==
    /\ last.op = "IdleFire"
    /\ last.applied
    /\ activeEditor # NoEditor
    /\ docs[activeEditor].version >= 2
    /\ docs[activeEditor].text = TxtHeadEm
    /\ selections[activeEditor] # <<Cursor(0, 0)>>
    /\ Settled(activeEditor)

\* (a) the range overlaps a non-empty selection, touching ends included
Before(p, q) == p.line < q.line \/ (p.line = q.line /\ p.character <= q.character)

IntersectsSelection(range, sels) ==
    \E i \in 1..Len(sels) :
        /\ sels[i].start # sels[i].end
        /\ Before(range.start, sels[i].end)
        /\ Before(sels[i].start, range.end)

\* (b) a cursor lies within the range
CursorWithin(range, sels) ==
    \E i \in 1..Len(sels) :
        /\ sels[i].start = sels[i].end
        /\ Before(range.start, sels[i].start)
        /\ Before(sels[i].start, range.end)

\* (c) a line the range spans is touched by a selection or a cursor
SpansSelectedLine(range, sels) ==
    \E i \in 1..Len(sels) :
        \E line \in range.start.line..range.end.line :
            sels[i].start.line <= line /\ line <= sels[i].end.line

Suppressed(range, sels) ==
    \/ IntersectsSelection(range, sels)
    \/ CursorWithin(range, sels)
    \/ SpansSelectedLine(range, sels)

\* the ranges of the decorations of one type that are not suppressed, in order
Surviving(decorations, text, sels, type) ==
    LET ranges == [i \in 1..Len(decorations) |->
                      [type  |-> decorations[i].type,
                       range |-> createRange(decorations[i].startPos,
                                             decorations[i].endPos, text, text)]]
        kept == SelectSeq(ranges, LAMBDA r : r.type = type /\ ~Suppressed(r.range, sels))
    IN  [i \in 1..Len(kept) |-> kept[i].range]

\* the surviving ranges of every type, for every text and selection of the
\* model, computed once
SurvivingOf ==
    [text \in DocTexts, sels \in SelectionChoices \cup CursorChoices |->
        [t \in DecorationTypes |-> Surviving(Extracted[text], text, sels, t)]]

Expected(text, sels, type) ==
    IF <<text, sels>> \in DOMAIN SurvivingOf /\ type \in DecorationTypes
    THEN SurvivingOf[text, sels][type]
    ELSE Surviving(Extract(text), text, sels, type)

\* C6: the filter leaves out a decoration exactly when its range intersects a
\* non-empty selection, or a cursor lies within it, or a line it spans is
\* touched by a selection or cursor; every other decoration is in the output,
\* under its type and in order. A cursor on a line removes every decoration
\* that spans the line, for any number of selections.
C6_FilterExcludesExactly ==
    last.applied =>
        LET d == last.target
        IN  /\ \A i \in 1..Len(last.calls) :
                  last.calls[i].ranges
                      = Expected(docs[d].text, selections[d], last.calls[i].type)
            /\ \A t \in DecorationTypes :
                  Expected(docs[d].text, selections[d], t) # <<>>
                      => \E i \in 1..Len(last.calls) : last.calls[i].type = t
            /\ \A i \in 1..Len(selections[d]), k \in 1..Len(last.calls) :
                  \A j \in 1..Len(last.calls[k].ranges) :
                  LET r == last.calls[k].ranges[j]
                  IN  ~(r.start.line <= selections[d][i].start.line
                        /\ selections[d][i].start.line <= r.end.line)

\* C6 witness: with two cursors, a decoration that spans two lines is left
\* out only because a cursor is elsewhere on one of them, and a decoration of
\* another line is kept
C6_Witness ==
    /\ last.applied
    /\ Len(selections[last.target]) = 2
    /\ LET d == last.target
           decorations == Extract(docs[d].text)
       IN  /\ \E i \in 1..Len(decorations) :
                 LET r == createRange(decorations[i].startPos, decorations[i].endPos,
                                      docs[d].text, docs[d].text)
                 IN  /\ r.start.line < r.end.line
                     /\ ~IntersectsSelection(r, selections[d])
                     /\ ~CursorWithin(r, selections[d])
                     /\ SpansSelectedLine(r, selections[d])
           /\ \E k \in 1..Len(last.calls) : last.calls[k].ranges # <<>>

\* C7: the cache holds at most maxCacheSize (10) entries, one per document
\* URI, after any sequence of editor switches over any number of documents,
\* content changes, selection changes and clearCache calls.
C7_CacheBounded ==
    /\ Cardinality(DOMAIN decorationCache) <= maxCacheSize
    /\ DOMAIN decorationCache \subseteq DOMAIN docs
    /\ \A d, e \in DOMAIN decorationCache :
          d # e => decorationCache[d].lastAccessed # decorationCache[e].lastAccessed

\* C7 witness: the cache is full after an entry was evicted for the last
\* document opened
C7_Witness ==
    /\ Cardinality(DOMAIN decorationCache) = maxCacheSize
    /\ last.evicted # {}
    /\ Cardinality(DOMAIN docs) = MaxDocs
    /\ MaxDocs \in DOMAIN decorationCache

\* the entry of the cache whose last put or hit is the oldest
Oldest == {k \in DOMAIN decorationCache :
              \A j \in DOMAIN decorationCache :
                  decorationCache[k].lastAccessed <= decorationCache[j].lastAccessed}

\* the entries put or hit in this step
Touched == {d \in DOMAIN decorationCache' :
               d \notin DOMAIN decorationCache \/ decorationCache'[d] # decorationCache[d]}

C8_Step ==
    LET new  == DOMAIN decorationCache' \ DOMAIN decorationCache
        gone == DOMAIN decorationCache \ DOMAIN decorationCache'
        put  == last'.extractions = 1
    IN  \* a put for a document without an entry
        /\ new # {} =>
              /\ put
              /\ Cardinality(new) = 1
              /\ IF Cardinality(DOMAIN decorationCache) >= maxCacheSize
                 THEN gone = Oldest /\ Cardinality(gone) = 1 /\ last'.evicted = gone
                 ELSE gone = {} /\ last'.evicted = {}
        \* a put for a document that has an entry replaces it in place
        /\ (put /\ new = {}) =>
              /\ gone = {}
              /\ last'.evicted = {}
              /\ Cardinality(Touched) = 1
        \* every put and every hit gives the entry the next tick of the counter
        /\ \A d \in Touched :
              /\ decorationCache'[d].lastAccessed = accessCounter + 1
              /\ accessCounter' = accessCounter + 1
        /\ \A i \in 1..Len(last'.lookups) :
              LET l == last'.lookups[i]
              IN  /\ l.uri \in Touched
                  /\ l.hit => decorationCache'[l.uri]
                                 = [decorationCache[l.uri]
                                       EXCEPT !.lastAccessed = accessCounter + 1]
        /\ accessCounter' >= accessCounter
        /\ \A d \in DOMAIN decorationCache' : decorationCache'[d].lastAccessed <= accessCounter'

\* C8: a put for a document without an entry, when the cache holds 10 entries,
\* evicts exactly one entry, the one with the smallest lastAccessed; below 10
\* entries nothing is evicted; a put for a document that has an entry replaces
\* it in place and evicts nothing; every put and every hit sets the entry's
\* lastAccessed to the next value of a counter that only grows.
C8_EvictsLeastRecentlyUsed == [][C8_Step]_vars

\* C8 witness: the second document opened was evicted while the first, hit
\* again since, stayed in the full cache
C8_Witness ==
    /\ last.evicted = {2}
    /\ 1 \in DOMAIN decorationCache
    /\ Cardinality(DOMAIN decorationCache) = maxCacheSize

\* C9: every application calls setDecorations once for each of the 21
\* decoration types, with the type's whole filtered list of ranges, or the
\* empty list when the filter left none; afterwards the editor shows, for
\* every type, that list and nothing of an earlier application.
C9_EveryTypeSetOnce ==
    last.applied =>
        LET d == last.target
            filtered == Filter(Extract(docs[d].text), docs[d].text,
                               docs[d].text, selections[d])
            listOf(t) == IF t \in DOMAIN filtered THEN filtered[t] ELSE <<>>
        IN  /\ Len(last.calls) = 21
            /\ Cardinality(DecorationTypes) = 21
            /\ \A t \in DecorationTypes :
                  /\ Cardinality({i \in 1..Len(last.calls) : last.calls[i].type = t}) = 1
                  /\ \A i \in 1..Len(last.calls) :
                        last.calls[i].type = t => last.calls[i].ranges = listOf(t)
                  /\ shown[d][t] = listOf(t)

\* C9 witness: an application gave the empty list to a type that showed
\* ranges before, and ranges to another type
C9_Witness ==
    /\ last.applied
    /\ last.wiped # {}
    /\ \E t \in DecorationTypes : shown[last.target][t] # <<>>

\* C10 as stated: while decorations are disabled the active editor shows no
\* ranges of any type, whatever events occur, switching the active editor
\* included.
C10_DisabledShowsNothing ==
    (~decorationsEnabled /\ activeEditor # NoEditor /\ ~disposed) =>
        \A t \in DecorationTypes : shown[activeEditor][t] = <<>>

(***************************************************************************)
(* C11: for every text, whatever mix of LF, lone CR and CRLF it holds, and *)
(* all offsets startPos <= endPos of its normalized form, the slice of the *)
(* original text between the mapped offsets, once normalized, is the slice *)
(* [startPos, endPos) of the normalized text.                              *)
(***************************************************************************)
C11_MappedSliceIsNormalizedSlice ==
    last.op = "mapNormalizedToOriginal" =>
        normalize(Substring(last.text, last.start, last.end))
            = Substring(normalize(last.text), last.startPos, last.endPos)

\* a range across a CRLF of a text that also holds a lone CR: the original
\* slice is longer than the normalized one
C11_Witness ==
    /\ last.op = "mapNormalizedToOriginal"
    /\ IndexOf(last.text, <<"\r", "\n">>, 0) # -1
    /\ \E p \in 0..(Len(last.text) - 1) :
           CharAt(last.text, p) = "\r" /\ CharAt(last.text, p + 1) # "\n"
    /\ last.startPos < last.endPos
    /\ last.end - last.start > last.endPos - last.startPos

\* extractDecorations has run: the ranges it returned, and the length of the
\* normalized text they are offsets into
Returned == last.op = "extractDecorations" /\ last.pass = 1

\* extractDecorations has run a second time on the same text
ReturnedAgain == last.op = "extractDecorations" /\ last.pass = 2
NormalizedLength == Len(last.normalizedText)

(***************************************************************************)
(* C12: every range extractDecorations returns satisfies                   *)
(* 0 <= startPos < endPos <= length(normalized text): no zero-width or     *)
(* inverted range, also for links and images with empty text or alt.       *)
(***************************************************************************)
C12_RangesNonEmptyWithinText ==
    Returned =>
        \A i \in 1..Len(last.result) :
            /\ 0 <= last.result[i].startPos
            /\ last.result[i].startPos < last.result[i].endPos
            /\ last.result[i].endPos <= NormalizedLength

\* the half-open intervals of two ranges share a character
Overlap(a, b) == a.startPos < b.endPos /\ b.startPos < a.endPos

(***************************************************************************)
(* C13: in the list extractDecorations returns, two ranges of the same     *)
(* type never overlap (they may be adjacent), whatever the document holds: *)
(* an image inside a link, a link node that does not start with a bracket, *)
(* nested blockquotes, '![]' text; only ranges of different types coincide.*)
(***************************************************************************)
C13_SameTypeRangesDisjoint ==
    Returned =>
        \A i \in 1..Len(last.result) : \A j \in 1..Len(last.result) :
            (i # j /\ last.result[i].type = last.result[j].type)
                => ~Overlap(last.result[i], last.result[j])

\* the ranges in the order the handlers and the post-pass added them
Emission == last.decorations

\* the ranges of decs that start at offset p, in the order of decs
StartingAt(decs, p) == SelectSeq(decs, LAMBDA d : d.startPos = p)

(***************************************************************************)
(* C14: the list extractDecorations returns is sorted ascending by         *)
(* startPos, and ranges of equal startPos keep the order they were added   *)
(* in, for every input.                                                    *)
(***************************************************************************)
C14_SortedByStartStable ==
    Returned =>
        /\ \A i \in 1..(Len(last.result) - 1) :
               last.result[i].startPos <= last.result[i + 1].startPos
        /\ Len(last.result) = Len(Emission)
        /\ \A p \in 0..NormalizedLength :
               StartingAt(last.result, p) = StartingAt(Emission, p)

\* the sort had to move ranges, and two ranges that start together (not a
\* heading's pair, which is added side by side) kept their order
C14_Witness ==
    /\ Returned
    /\ last.result # Emission
    /\ \E i \in 1..(Len(last.result) - 1) :
           /\ last.result[i].startPos = last.result[i + 1].startPos
           /\ last.result[i].type = "italic"
           /\ last.result[i + 1].type = "hide"

\* the text extractDecorations parses, the tree the grammar reports for it
\* and the tree it reports under the fault of the run
Normalized == last.normalizedText
FaultFreeTree == IF last.fault = NoFault THEN last.ast ELSE mdast(Normalized)
FaultyTree == last.ast

\* what a run without fault adds, in order
FaultFreeEmission ==
    handleEmptyImageAlt(Normalized, processAST(FaultFreeTree, Normalized))

\* how many times the range d is in decs
Count(decs, d) == Cardinality({i \in 1..Len(decs) : decs[i] = d})

\* the nodes that add nothing in the run: the one without a valid position
\* and those whose handler throws
Skipped ==
    {last.fault.at} \cup {j \in 1..Len(FaultyTree) : Throws(FaultyTree, j, Normalized)}

\* the index of the nearest strong ancestor of the node at index j; 0 if none
RECURSIVE StrongAbove(_, _)
StrongAbove(tree, j) ==
    IF tree[j].parent = 0 THEN 0
    ELSE IF tree[tree[j].parent].type = "strong" THEN tree[j].parent
    ELSE StrongAbove(tree, tree[j].parent)

\* the emphasis nodes whose nearest strong ancestor is the node without position
Unwrapped ==
    {j \in 1..Len(FaultyTree) :
        /\ FaultyTree[j].type = "emphasis"
        /\ last.fault.position = "none"
        /\ StrongAbove(FaultyTree, j) = last.fault.at}

\* Under a node without valid position the run returns what the run without
\* fault returns, less ranges of the skipped nodes, plus the ranges of the
\* nodes of `others` as they are handled in the faulty tree.
LosesOnlySkipped(others) ==
    /\ \A i \in 1..Len(last.result) :
           \/ Count(last.result, last.result[i]) <= Count(FaultFreeEmission, last.result[i])
           \/ \E j \in others :
                  Count(processNode(FaultyTree, j, Normalized, {}).decorations,
                        last.result[i]) > 0
    /\ \A i \in 1..Len(FaultFreeEmission) :
           Count(FaultFreeEmission, FaultFreeEmission[i]) > Count(last.result, FaultFreeEmission[i])
               => \E j \in Skipped :
                      Count(processNode(FaultFreeTree, j, Normalized, {}).decorations,
                            FaultFreeEmission[i]) > 0

\* extractDecorations returns a list; none for what is no text or is empty, and
\* none when the grammar throws
TotalOnAnyInput ==
    /\ DOMAIN last.result = 1..Len(last.result)
    /\ (last.input.type # "string" \/ last.input = Str(<<>>)) => last.result = <<>>
    /\ last.fault.kind = "parse" => last.result = <<>>

(***************************************************************************)
(* C15 as stated: extractDecorations returns a list for any input, the     *)
(* empty one for empty or non-text input and the ranges added before a     *)
(* failure of the grammar; a node without position offsets, or a failure   *)
(* inside one node's handler, affects only that node: every range of the   *)
(* other nodes is returned as in a run without the fault, and no other.    *)
(***************************************************************************)
C15_Original ==
    Returned =>
        /\ TotalOnAnyInput
        /\ last.fault.kind = "position" => LosesOnlySkipped({})

(***************************************************************************)
(* C15, amended: as above, except that an emphasis node whose nearest      *)
(* strong ancestor has no position is handled as outside the triple-marker *)
(* case and adds its own marker and content ranges.                        *)
(***************************************************************************)
C15_TotalAndFaultsLocal ==
    Returned =>
        /\ TotalOnAnyInput
        /\ last.fault.kind = "position" => LosesOnlySkipped(Unwrapped)

\* a handled node has no valid position, the run still returns ranges of the
\* nodes after it, and fewer than the run without fault
C15_Witness ==
    /\ Returned
    /\ last.fault.kind = "position"
    /\ FaultFreeTree[last.fault.at].type \in HandledTypes
    /\ last.result # <<>>
    /\ Len(last.result) < Len(FaultFreeEmission)
    /\ \E i \in 1..Len(last.result), j \in (last.fault.at + 1)..Len(FaultFreeTree) :
           Count(processNode(FaultFreeTree, j, Normalized, {}).decorations,
                 last.result[i]) > 0

\* extractDecorations has run on a text, the grammar without fault
Parsed == Returned /\ last.fault = NoFault /\ last.input.type = "string"
          /\ last.input.chars # <<>>

\* what the handler of the node at index j adds
Added(j) == processNode(FaultFreeTree, j, Normalized, {}).decorations

\* the triple-marker case: an emphasis node two characters inside its nearest
\* strong ancestor at both ends
TripleMarker(j) ==
    /\ FaultFreeTree[j].type = "emphasis"
    /\ StrongAbove(FaultFreeTree, j) # 0
    /\ FaultFreeTree[j].start = FaultFreeTree[StrongAbove(FaultFreeTree, j)].start + 2
    /\ FaultFreeTree[j].end = FaultFreeTree[StrongAbove(FaultFreeTree, j)].end - 2

\* the nodes with a marker at both ends
MarkerNodes ==
    {j \in 1..Len(FaultFreeTree) :
        /\ FaultFreeTree[j].type \in {"strong", "emphasis", "delete", "inlineCode"}
        /\ ~TripleMarker(j)}

\* the marker length of each construct
MarkerLength(j) ==
    CASE FaultFreeTree[j].type = "strong"     -> 2
      [] FaultFreeTree[j].type = "emphasis"   -> 1
      [] FaultFreeTree[j].type = "delete"     -> 2
      [] FaultFreeTree[j].type = "inlineCode" ->
             RunOf(Normalized, FaultFreeTree[j].start, FaultFreeTree[j].end, {Backtick})

\* the types the content of each construct may have
ContentTypes(j) ==
    CASE FaultFreeTree[j].type = "strong"     -> {"bold", "boldItalic"}
      [] FaultFreeTree[j].type = "emphasis"   -> {"italic", "boldItalic"}
      [] FaultFreeTree[j].type = "delete"     -> {"strikethrough"}
      [] FaultFreeTree[j].type = "inlineCode" -> {"code"}

\* the handler of node j adds exactly a hide range over each marker and, when
\* there is content between them, one content range; they are disjoint and
\* cover the span of the node
MarkerPair(j) ==
    LET s == FaultFreeTree[j].start
        e == FaultFreeTree[j].end
        k == MarkerLength(j)
    IN  /\ s + k <= e - k
        /\ \E type \in ContentTypes(j) :
               Added(j) = <<Dec(s, s + k, "hide")>>
                          \o (IF s + k < e - k THEN <<Dec(s + k, e - k, type)>> ELSE <<>>)
                          \o <<Dec(e - k, e, "hide")>>
        /\ \A i \in 1..Len(Added(j)) : Count(last.result, Added(j)[i]) > 0

(***************************************************************************)
(* C16: for a strong, emphasis (outside the triple-marker case), delete or *)
(* inlineCode node with span [s, e) and marker length m, the handler adds  *)
(* exactly hide [s, s+m), a content range [s+m, e-m) when that is          *)
(* non-empty, and hide [e-m, e); the ranges are pairwise disjoint and      *)
(* cover the span.  '**bold**' gives {0,2,hide}, {2,6,bold}, {6,8,hide}.   *)
(***************************************************************************)
C16_MarkerPairsDisjointCover ==
    Parsed =>
        /\ \A j \in MarkerNodes : MarkerPair(j)
        /\ Normalized = Blocks[1].text =>
               last.result = <<Dec(0, 2, "hide"), Dec(2, 6, "bold"), Dec(6, 8, "hide")>>

\* the heading nodes whose source starts with a '#'
HashHeadings ==
    {j \in 1..Len(FaultFreeTree) :
        /\ FaultFreeTree[j].type = "heading"
        /\ CharAt(Normalized, FaultFreeTree[j].start) = "#"}

\* the number of '#' at the start of heading j, and of whitespace after them
Hashes(j) == RunOf(Normalized, FaultFreeTree[j].start, FaultFreeTree[j].end, {"#"})
Blanks(j) == RunOf(Normalized, FaultFreeTree[j].start + Hashes(j), FaultFreeTree[j].end,
                   WhiteSpace)

\* the offsets of heading j after its hashes and blanks that hold content
ContentOffsets(j) ==
    {q \in (FaultFreeTree[j].start + Hashes(j) + Blanks(j))..(FaultFreeTree[j].end - 1) :
        ~IsSpace(CharAt(Normalized, q))}

\* one hide range over hashes and blanks and, when content remains, a pair of
\* ranges over it up to its last character, typed heading<k> and heading
HeadingRanges(j) ==
    LET start   == FaultFreeTree[j].start
        hideEnd == start + Hashes(j) + Blanks(j)
        contentEnd == 1 + CHOOSE q \in ContentOffsets(j) : \A r \in ContentOffsets(j) : r <= q
    IN  <<Dec(start, hideEnd, "hide")>>
        \o (IF ContentOffsets(j) = {} THEN <<>>
            ELSE <<Dec(hideEnd, contentEnd, "heading" \o ToString(Hashes(j))),
                   Dec(hideEnd, contentEnd, "heading")>>)

(***************************************************************************)
(* C17: for a heading node whose source starts with k '#' followed by w    *)
(* whitespace characters the handler adds one hide range                   *)
(* [start, start+k+w) and, when content remains after trimming trailing    *)
(* whitespace, exactly two coincident ranges [start+k+w, contentEnd), one  *)
(* typed heading<k> and one heading; with no content, only the hide range. *)
(***************************************************************************)
C17_HeadingHideAndPair ==
    Parsed =>
        \A j \in HashHeadings :
            /\ Added(j) = HeadingRanges(j)
            /\ \A i \in 1..Len(Added(j)) : Count(last.result, Added(j)[i]) > 0

\* a document with a level-2 heading after two blanks, and one with a
\* heading that is a single hash
C17_Witness ==
    /\ Parsed
    /\ \E j \in HashHeadings :
           Hashes(j) = 2 /\ Blanks(j) = 2 /\ Len(Added(j)) = 3
    /\ \E j \in HashHeadings : ContentOffsets(j) = {} /\ Len(Added(j)) = 1

\* the nodes on the way from the node at index j up to the root, nearest first
RECURSIVE PathToRoot(_, _)
PathToRoot(tree, j) ==
    IF tree[j].parent = 0 THEN <<>>
    ELSE <<tree[tree[j].parent]>> \o PathToRoot(tree, tree[j].parent)

\* some node above the node at index j is of this type
HasAncestor(j, type) ==
    \E a \in 1..Len(PathToRoot(FaultFreeTree, j)) :
        PathToRoot(FaultFreeTree, j)[a].type = type

\* the type of the content range the handler of node j adds
ContentType(j) == Added(j)[2].type

(***************************************************************************)
(* C18: the content range of a strong node is typed boldItalic exactly     *)
(* when some ancestor at any depth is an emphasis node, and bold           *)
(* otherwise; that of an emphasis node outside the triple-marker case is   *)
(* boldItalic exactly when some ancestor is a strong node, and italic      *)
(* otherwise; the ancestor list computed for each node during the visit is *)
(* the node's path to the root.                                            *)
(***************************************************************************)
C18_NestingDecidesType ==
    Parsed =>
        \A j \in 1..Len(FaultFreeTree) :
            /\ currentAncestors(FaultFreeTree, j) = PathToRoot(FaultFreeTree, j)
            /\ FaultFreeTree[j].type = "strong" =>
                   /\ Len(Added(j)) = 3
                   /\ ContentType(j) = IF HasAncestor(j, "emphasis")
                                       THEN "boldItalic" ELSE "bold"
            /\ (FaultFreeTree[j].type = "emphasis" /\ ~TripleMarker(j)) =>
                   /\ Len(Added(j)) = 3
                   /\ ContentType(j) = IF HasAncestor(j, "strong")
                                       THEN "boldItalic" ELSE "italic"

\* a strong node whose emphasis ancestor is not its parent, typed boldItalic,
\* in a document that also holds a strong node typed bold
C18_Witness ==
    /\ Parsed
    /\ \E j \in 1..Len(FaultFreeTree) :
           /\ FaultFreeTree[j].type = "strong"
           /\ FaultFreeTree[FaultFreeTree[j].parent].type # "emphasis"
           /\ HasAncestor(j, "emphasis")
           /\ ContentType(j) = "boldItalic"
           /\ Count(last.result, Added(j)[2]) > 0
    /\ \E j \in 1..Len(FaultFreeTree) :
           FaultFreeTree[j].type = "strong" /\ ContentType(j) = "bold"

\* the list items of the parsed document whose first character is a bullet marker
BulletItems ==
    {j \in 1..Len(FaultFreeTree) :
        /\ FaultFreeTree[j].type = "listItem"
        /\ CharAt(Normalized, FaultFreeTree[j].start) \in {"-", "*", "+"}}

\* the checkbox type of the three characters from offset at, or "" when they
\* are no checkbox token
CheckboxToken(at) ==
    IF CharAt(Normalized, at) = "[" /\ CharAt(Normalized, at + 2) = "]"
    THEN CASE CharAt(Normalized, at + 1) = " "         -> "checkboxUnchecked"
           [] CharAt(Normalized, at + 1) \in {"x", "X"} -> "checkboxChecked"
           [] OTHER                                     -> ""
    ELSE ""

\* what the handler is to add for the item at index j when its listItem range
\* ends at markerEnd
ItemRanges(j, markerEnd) ==
    LET start == FaultFreeTree[j].start
    IN  IF CheckboxToken(markerEnd) # "" /\ markerEnd + 3 <= FaultFreeTree[j].end
        THEN << Dec(start, markerEnd, "listItem"),
                Dec(markerEnd, markerEnd + 3, CheckboxToken(markerEnd)) >>
        ELSE << Dec(start, markerEnd, "listItem") >>

\* C19 as stated: the listItem range always covers the marker and one more
\* character, a space.
C19_Original ==
    Parsed =>
        \A j \in BulletItems :
            /\ Added(j) = ItemRanges(j, FaultFreeTree[j].start + 2)
            /\ CharAt(Normalized, FaultFreeTree[j].start + 1) = " "

(***************************************************************************)
(* C19: for a list item that starts with '-', '*' or '+' the handler adds  *)
(* one listItem range over the marker and the one space after it when a    *)
(* space follows inside the item, over the marker alone otherwise; when    *)
(* the three characters after that range are '[ ]', '[x]' or '[X]' inside  *)
(* the item it adds exactly one more range over exactly those three,       *)
(* checkboxUnchecked for '[ ]' and checkboxChecked for '[x]' and '[X]';    *)
(* otherwise it adds no checkbox range.                                    *)
(***************************************************************************)
C19_ListItemAndCheckbox ==
    Parsed =>
        \A j \in BulletItems :
            LET start == FaultFreeTree[j].start
                space == /\ start + 1 < FaultFreeTree[j].end
                         /\ CharAt(Normalized, start + 1) = " "
            IN  Added(j) = ItemRanges(j, IF space THEN start + 2 ELSE start + 1)

\* a task item '[X]' is in the document: the result holds its listItem range
\* over marker and space and its checkboxChecked range over the three characters
C19_Witness ==
    /\ Parsed
    /\ \E j \in BulletItems :
           LET start == FaultFreeTree[j].start
           IN  /\ CharAt(Normalized, start + 3) = "X"
               /\ Count(last.result, Dec(start, start + 2, "listItem")) = 1
               /\ Count(last.result, Dec(start + 2, start + 5, "checkboxChecked")) = 1
               /\ \A d \in 1..Len(last.result) :
                      last.result[d].type \in {"checkboxChecked", "checkboxUnchecked"}
                          => last.result[d] = Dec(start + 2, start + 5, "checkboxChecked")

\* the image nodes of the parsed document
Images == {j \in 1..Len(FaultFreeTree) : FaultFreeTree[j].type = "image"}

\* the offsets of the node at index j that no hide range added for it covers
Shown(j) ==
    {q \in FaultFreeTree[j].start..(FaultFreeTree[j].end - 1) :
        ~\E d \in 1..Len(Added(j)) :
            /\ Added(j)[d].type = "hide"
            /\ Added(j)[d].startPos <= q
            /\ q < Added(j)[d].endPos}

\* the offsets of the alt text of the image at index j
AltText(j) ==
    (FaultFreeTree[j].start + 2)..(IndexOfChar(Normalized, "]", FaultFreeTree[j].start + 2) - 1)

(***************************************************************************)
(* C20: for an image '![alt](url)' the hide ranges added cover '![', ']'   *)
(* and the whole parenthesized URL, '(' and the URL text and ')'; only the *)
(* alt text is left visible, and it is tagged image.                       *)
(***************************************************************************)
C20_ImageHidesWholeUrl ==
    Parsed =>
        \A j \in Images :
            /\ Shown(j) = AltText(j)
            /\ \E d \in 1..Len(Added(j)) :
                   Added(j)[d] = Dec(FaultFreeTree[j].start + 2,
                                     IndexOfChar(Normalized, "]", FaultFreeTree[j].start + 2),
                                     "image")

\* version, text and range list of an entry are the same in both
SameContent(a, b) ==
    a.version = b.version /\ a.text = b.text /\ a.decorations = b.decorations

\* the step looked document d up in the cache and missed, so stored it anew
Replaced(d) ==
    /\ last'.extractions > 0
    /\ \E i \in 1..Len(last'.lookups) : last'.lookups[i].uri = d /\ ~last'.lookups[i].hit

\* An entry that stays in the cache over a step keeps its version, text and
\* ranges unless the step stored the document anew; a step that delivers no
\* content change and does not deactivate removes no entry; a content change
\* on document d removes at most the entry of d and leaves every other entry
\* as it is, lastAccessed included.
C21_Step ==
    /\ \A d \in DOMAIN decorationCache \cap DOMAIN decorationCache' :
           SameContent(decorationCache[d], decorationCache'[d]) \/ Replaced(d)
    /\ last'.op \in {"ChangeActiveEditor", "ChangeSelection", "ToggleDecorations",
                     "DebounceFire", "IdleFire"}
           => DOMAIN decorationCache \subseteq DOMAIN decorationCache'
    /\ \A d \in DOMAIN docs :
           docs'[d] # docs[d] =>
               \A e \in DOMAIN decorationCache \ {d} :
                   e \in DOMAIN decorationCache' /\ decorationCache'[e] = decorationCache[e]

(***************************************************************************)
(* C21: from the step that stores a cache entry to the step that           *)
(* invalidates or replaces it, its version, text and range list never      *)
(* change: selection changes, cache hits, filtering and applying change at *)
(* most its lastAccessed, and a content change on one document removes     *)
(* only that document's entry and leaves every other entry unchanged.      *)
(***************************************************************************)
C21_EntriesImmutable == [][C21_Step]_vars

\* a content change on the active document has just removed its entry while
\* the entry of another document is still stored
C21_Witness ==
    /\ last.op = "ChangeTextDocument"
    /\ windowActive # NoEditor /\ isMarkdown(windowActive)
    /\ docs[windowActive].version > 1
    /\ windowActive \in DOMAIN pendingUpdateVersion
    /\ pendingUpdateVersion[windowActive] = docs[windowActive].version
    /\ windowActive \notin DOMAIN decorationCache
    /\ \E e \in DOMAIN decorationCache :
           /\ e # windowActive
           /\ decorationCache[e].version = docs[e].version
           /\ decorationCache[e].decorations = Extract(decorationCache[e].text)

FilterRan == last.op = "filterDecorations"

\* the range of the original text a decoration of the filter's input stands for
MappedRange(d) ==
    Rng(positionAt(last.text, mapNormalizedToOriginal(d.startPos, last.text)),
        positionAt(last.text, mapNormalizedToOriginal(d.endPos, last.text)))

\* the places of the input list whose decoration has the type and is not
\* suppressed by the selections
SurvivorPlaces(type) ==
    {i \in 1..Len(last.decorations) :
        /\ last.decorations[i].type = type
        /\ ~Suppressed(MappedRange(last.decorations[i]), last.sels)}

\* the n-th smallest member of a set of numbers
RECURSIVE Nth(_, _)
Nth(places, n) ==
    LET least == CHOOSE i \in places : \A j \in places : i <= j
    IN  IF n = 1 THEN least ELSE Nth(places \ {least}, n - 1)

\* C22: the filter's output is a partition of the surviving decorations by
\* type: each surviving decoration appears exactly once, under the key of its
\* own type, as the range between its two mapped offsets and in the order of
\* the input list; no suppressed decoration appears under any key, and no key
\* maps to an empty list.
C22_OutputIsPartitionByType ==
    FilterRan =>
        /\ DOMAIN last.filtered = {t \in FilterTypes : SurvivorPlaces(t) # {}}
        /\ \A t \in DOMAIN last.filtered :
               /\ last.filtered[t] # <<>>
               /\ Len(last.filtered[t]) = Cardinality(SurvivorPlaces(t))
               /\ \A n \in 1..Len(last.filtered[t]) :
                      last.filtered[t][n]
                          = MappedRange(last.decorations[Nth(SurvivorPlaces(t), n)])

\* C22 witness: in a document with a "\r\n" line ending, of two decorations of
\* one type with different ranges the first survives under its type, at the
\* range its offsets map to, and the second is suppressed by a cursor
C22_Witness ==
    /\ FilterRan
    /\ IndexOf(last.text, <<"\r", "\n">>, 0) # -1
    /\ Len(last.decorations) = 2
    /\ last.decorations[1].type = last.decorations[2].type
    /\ Suppressed(MappedRange(last.decorations[2]), last.sels)
    /\ MappedRange(last.decorations[2]).end.character # last.decorations[2].endPos
    /\ DOMAIN last.filtered = {last.decorations[1].type}
    /\ last.filtered[last.decorations[1].type] = <<MappedRange(last.decorations[1])>>

\* C22 witness of the order: two decorations of one type both survive
C22_OrderWitness ==
    /\ FilterRan
    /\ Len(last.decorations) = 2
    /\ MappedRange(last.decorations[1]) # MappedRange(last.decorations[2])
    /\ last.filtered = [t \in {"hide"} |-> <<MappedRange(last.decorations[1]),
                                             MappedRange(last.decorations[2])>>]

\* the original indices of the characters that each produce one character of
\* the normalized text: every character but the "\n" of a "\r\n" pair, which
\* is produced together with its "\r"
Producers(text) ==
    {i \in 0..(Len(text) - 1) :
        ~(CharAt(text, i) = "\n" /\ i > 0 /\ CharAt(text, i - 1) = "\r")}

HasCRLF(text) == \E i \in 1..(Len(text) - 1) : text[i] = "\r" /\ text[i + 1] = "\n"

MappedTarget == last.op = "mapTarget"

\* a target inside the normalized text maps to the producer of its character
ValidTargetMapsToProducer ==
    MappedTarget /\ last.normalizedPos < Len(normalize(last.text))
        => last.mapped = Nth(Producers(last.text), last.normalizedPos + 1)

\* without a CRLF the mapping is the identity
NoCRLFIsIdentity ==
    MappedTarget /\ ~HasCRLF(last.text) => last.mapped = last.normalizedPos

\* a non-empty normalized range maps to a non-empty original range
RangeStaysNonEmpty ==
    last.op = "mapNormalizedToOriginal" /\ last.startPos < last.endPos
        => last.start < last.end

\* C23 as stated: every target p in 0..length(normalized text) maps to the
\* original index of the character that produced normalized character p (the
\* "\r" for the "\n" of a CRLF pair), p = length(normalized text) or any larger
\* target maps to length(original text), and without a CRLF the mapping is the
\* identity; so a non-empty normalized range maps to a non-empty original one.
C23_Original ==
    /\ ValidTargetMapsToProducer
    /\ MappedTarget /\ last.normalizedPos >= Len(normalize(last.text))
           => last.mapped = Len(last.text)
    /\ NoCRLFIsIdentity
    /\ RangeStaysNonEmpty

\* C23, amended: as stated for the targets 0..length(normalized text); a
\* larger target maps to length(original text) when the original text holds a
\* CRLF, and to itself when it holds none.
C23_MappingFollowsProducers ==
    /\ ValidTargetMapsToProducer
    /\ MappedTarget /\ last.normalizedPos = Len(normalize(last.text))
           => last.mapped = Len(last.text)
    /\ MappedTarget /\ last.normalizedPos > Len(normalize(last.text))
           => last.mapped = IF HasCRLF(last.text) THEN Len(last.text)
                            ELSE last.normalizedPos
    /\ NoCRLFIsIdentity
    /\ RangeStaysNonEmpty

\* C23 witness: the target is the "\n" of a CRLF pair that follows an earlier
\* CRLF, and the result is the index of its "\r", one past the target
C23_Witness ==
    /\ MappedTarget
    /\ last.normalizedPos < Len(normalize(last.text))
    /\ normalize(last.text)[last.normalizedPos + 1] = "\n"
    /\ last.mapped = last.normalizedPos + 1
    /\ CharAt(last.text, last.mapped) = "\r"
    /\ CharAt(last.text, last.mapped + 1) = "\n"

(***************************************************************************)
(* C24: when an emphasis node lies two characters inside its strong        *)
(* ancestor at both ends, as in '**_text_**', the emphasis handler adds no *)
(* range of its own, and the output holds a boldItalic range over the      *)
(* emphasized text, added by the handler of the enclosing strong node.     *)
(***************************************************************************)
C24_TripleMarkerIsBoldItalic ==
    Parsed =>
        \A j \in 1..Len(FaultFreeTree) :
            TripleMarker(j) =>
                /\ Added(j) = <<>>
                /\ \E d \in 1..Len(Added(StrongAbove(FaultFreeTree, j))) :
                       LET r == Added(StrongAbove(FaultFreeTree, j))[d]
                       IN  /\ r.type = "boldItalic"
                           /\ r.startPos <= FaultFreeTree[j].start + 1
                           /\ FaultFreeTree[j].end - 1 <= r.endPos
                           /\ \E i \in 1..Len(last.result) : last.result[i] = r

\* what holds instead in the triple-marker case: the emphasis handler adds
\* nothing, the strong handler adds a bold range over the span of the
\* emphasis node, markers included, and no range of the document's output
\* over that span is boldItalic or italic
TripleMarkerIsBold ==
    Parsed =>
        \A j \in 1..Len(FaultFreeTree) :
            (TripleMarker(j) /\ ~HasAncestor(StrongAbove(FaultFreeTree, j), "emphasis")) =>
                /\ Added(j) = <<>>
                /\ Added(StrongAbove(FaultFreeTree, j))[2]
                       = Dec(FaultFreeTree[j].start, FaultFreeTree[j].end, "bold")
                /\ ~\E i \in 1..Len(last.result) :
                       /\ last.result[i].type \in {"boldItalic", "italic"}
                       /\ FaultFreeTree[j].start <= last.result[i].startPos
                       /\ last.result[i].endPos <= FaultFreeTree[j].end

\* the blockquote nodes of the parsed document
Blockquotes == {j \in 1..Len(FaultFreeTree) : FaultFreeTree[j].type = "blockquote"}

\* the offset at which the line of offset p starts
LineStartOf(p) ==
    IF \E q \in 0..(p - 1) : CharAt(Normalized, q) = "\n"
    THEN 1 + CHOOSE q \in 0..(p - 1) :
                 /\ CharAt(Normalized, q) = "\n"
                 /\ \A r \in (q + 1)..(p - 1) : CharAt(Normalized, r) # "\n"
    ELSE 0

\* the '>' characters inside a blockquote node that only whitespace and other
\* '>' characters precede on their line
QuoteMarkers ==
    {p \in 0..(Len(Normalized) - 1) :
        /\ CharAt(Normalized, p) = ">"
        /\ \E j \in Blockquotes : FaultFreeTree[j].start <= p /\ p < FaultFreeTree[j].end
        /\ \E s \in 0..p :
               /\ s = 0 \/ CharAt(Normalized, s - 1) = "\n"
               /\ \A q \in s..(p - 1) : CharAt(Normalized, q) \in {" ", "\t", ">"}}

(***************************************************************************)
(* C25: for any nesting of blockquote nodes, each '>' that lies on a line  *)
(* of a blockquote node and is preceded on its line only by whitespace and *)
(* other '>' characters gets exactly one single-character blockquote range *)
(* in the output, also when an outer and an inner node both contain it;    *)
(* this holds of the first extraction and of a second one on the same      *)
(* text, which returns the ranges of the first although the first has      *)
(* processed the positions of the markers.                                 *)
(***************************************************************************)
C25_OneRangePerQuoteMarker ==
    /\ (Parsed \/ ReturnedAgain) =>
           /\ \A p \in 0..(Len(Normalized) - 1) :
                  Count(last.result, Dec(p, p + 1, "blockquote"))
                      = IF p \in QuoteMarkers THEN 1 ELSE 0
           /\ \A i \in 1..Len(last.result) :
                  last.result[i].type = "blockquote"
                      => last.result[i].endPos = last.result[i].startPos + 1
    /\ ReturnedAgain => last.result = last.first

\* C25 witness: a quote of two lines with a nested quote on the second, after
\* the second extraction; the '>' at the start of the second line is on a
\* line of both nodes, the three markers get one range each, and the first
\* extraction had processed the three positions
C25_Witness ==
    /\ ReturnedAgain
    /\ QuoteMarkers \subseteq last.processed
    /\ \E j \in Blockquotes, k \in Blockquotes :
           /\ FaultFreeTree[k].parent = j
           /\ LineStartOf(FaultFreeTree[k].start) > FaultFreeTree[j].start
           /\ LineStartOf(FaultFreeTree[k].start) < FaultFreeTree[k].start
           /\ LineStartOf(FaultFreeTree[k].start) \in QuoteMarkers
           /\ Count(last.result, Dec(LineStartOf(FaultFreeTree[k].start),
                                     LineStartOf(FaultFreeTree[k].start) + 1,
                                     "blockquote")) = 1
    /\ Cardinality(QuoteMarkers) >= 3

\* the ranges the handlers added, before the post-pass
HandlerRanges == last.handled

\* the offsets at which the literal '![]' occurs
EmptyAlts ==
    {p \in 0..(Len(Normalized) - 3) :
        /\ CharAt(Normalized, p) = "!"
        /\ CharAt(Normalized, p + 1) = "["
        /\ CharAt(Normalized, p + 2) = "]"}

\* those of them that no range of the handlers covers
UncoveredEmptyAlts ==
    {p \in EmptyAlts :
        ~\E i \in 1..Len(HandlerRanges) :
            HandlerRanges[i].startPos <= p /\ p < HandlerRanges[i].endPos}

(***************************************************************************)
(* C26: the post-pass appends, for every '![]' at an offset p that no      *)
(* existing range covers (startPos <= p < endPos), exactly the two hide    *)
(* ranges [p, p+2) and [p+2, p+3); for a covered occurrence it appends     *)
(* nothing; it removes and changes no existing range, and leaves the list  *)
(* as it is when the text holds no '!['.                                   *)
(***************************************************************************)
C26_EmptyAltPostPass ==
    Parsed =>
        /\ Len(Emission) = Len(HandlerRanges) + 2 * Cardinality(UncoveredEmptyAlts)
        /\ SubSeq(Emission, 1, Len(HandlerRanges)) = HandlerRanges
        /\ \A n \in 1..Cardinality(UncoveredEmptyAlts) :
               LET p == Nth(UncoveredEmptyAlts, n)
               IN  /\ Emission[Len(HandlerRanges) + 2 * n - 1] = Dec(p, p + 2, "hide")
                   /\ Emission[Len(HandlerRanges) + 2 * n] = Dec(p + 2, p + 3, "hide")
        /\ IndexOf(Normalized, <<"!", "[">>, 0) = -1 => Emission = HandlerRanges

\* C26 witness: a document with a covered '![]' (an image with empty alt) and
\* an uncovered one after it, which gets its two ranges at the end of the list
C26_Witness ==
    /\ Parsed
    /\ EmptyAlts \ UncoveredEmptyAlts # {}
    /\ \E p \in UncoveredEmptyAlts :
           /\ \E q \in EmptyAlts \ UncoveredEmptyAlts : q < p
           /\ HandlerRanges # <<>>
           /\ Emission = HandlerRanges \o <<Dec(p, p + 2, "hide"), Dec(p + 2, p + 3, "hide")>>

\* the closed enumeration DecorationType of the parser
DecorationKind ==
    { "hide", "bold", "italic", "boldItalic", "strikethrough", "code", "codeBlock",
      "heading", "heading1", "heading2", "heading3", "heading4", "heading5",
      "heading6", "link", "image", "blockquote", "listItem", "checkboxUnchecked",
      "checkboxChecked", "horizontalRule" }

\* the heading nodes of the parsed document
Headings == {j \in 1..Len(FaultFreeTree) : FaultFreeTree[j].type = "heading"}

(***************************************************************************)
(* C27: every range extractDecorations returns carries a type of the       *)
(* closed enumeration; the level tag the heading handler adds is one of    *)
(* heading1 .. heading6, for every heading node the grammar can report.    *)
(***************************************************************************)
C27_TypesInEnumeration ==
    Parsed =>
        /\ \A i \in 1..Len(last.result) : last.result[i].type \in DecorationKind
        /\ \A j \in Headings : \A d \in 1..Len(Added(j)) :
               Added(j)[d].type \in {"hide", "heading", "heading1", "heading2", "heading3",
                                     "heading4", "heading5", "heading6"}

\* what holds instead: the level tag counts the '#' characters the node's
\* text starts with, whatever their number, and every range of a node that
\* is no heading carries a type of the enumeration
LevelTagCountsHashes ==
    Parsed =>
        /\ \A j \in Headings : \A d \in 1..Len(Added(j)) :
               Added(j)[d].type
                   \in {"hide", "heading",
                        "heading" \o ToString(RunOf(Normalized, FaultFreeTree[j].start,
                                                    FaultFreeTree[j].end, {"#"}))}
        /\ \A i \in 1..Len(last.result) :
               last.result[i].type \in DecorationKind
                   \/ \E j \in Headings : \E d \in 1..Len(Added(j)) :
                          Added(j)[d] = last.result[i]

\* the step is a call of setActiveEditor
Switched == last'.op = "ChangeActiveEditor"

\* an idle callback that applies decorations applies them to the editor of
\* the document it was scheduled for
UpdatesItsOwnEditor ==
    \A t \in timers :
        (last'.op = "IdleFire" /\ last'.fired = t.id /\ last'.applied)
            => last'.target = t.cacheKey

\* an idle callback applied decorations to the active editor while the
\* document it was scheduled for, another one, is the only one ever changed
StaleUpdateRan ==
    /\ last.op = "IdleFire"
    /\ last.applied
    /\ docs[last.target].version = 1
    /\ last.target \notin DOMAIN pendingUpdateVersion
    /\ \E d \in DOMAIN docs : d # last.target /\ docs[d].version > 1

\* C28: setActiveEditor cancels every pending debounced update, whether it
\* waits on the debounce timer or on the idle callback: no timer pending
\* before the call is pending after it, and no debounced update scheduled for
\* the editor left behind is executed on the new one.
C28_SwitchCancelsPending ==
    [][Switched => timers \cap timers' = {}]_vars /\ [][UpdatesItsOwnEditor]_vars

\* what holds instead: the call cancels the debounce timer and forgets its
\* handle, and leaves a pending idle callback and its handle as they are
SwitchCancelsDebounceTimerOnly ==
    [][Switched =>
          /\ timers' = {t \in timers : t.kind = "idle"}
          /\ updateTimeout' = NoTimer
          /\ idleCallbackHandle' = idleCallbackHandle]_vars

\* the precise checks of the filter on the range of a decoration: the host's
\* Range.contains and Range.intersection as the filter calls them
PreciselySelected(d) ==
    isRangeSelected(MappedRange(d), SelectSeq(last.sels, LAMBDA s : ~isEmpty(s)), last.sels)

\* the places of the input list whose decoration has the type and spans no
\* line that a selection or cursor touches
LineSurvivorPlaces(type) ==
    {i \in 1..Len(last.decorations) :
        /\ last.decorations[i].type = type
        /\ ~SpansSelectedLine(MappedRange(last.decorations[i]), last.sels)}

(***************************************************************************)
(* C29: the precise checks of the selection filter are subsumed by the     *)
(* line-based check: whenever a decoration's range intersects a non-empty  *)
(* selection or contains a cursor, some line of the range is selected; so  *)
(* the filter's output is that of a filter with the line-based check only, *)
(* for every list of decorations and every set of selections.              *)
(***************************************************************************)
C29_LineCheckSubsumesPrecise ==
    FilterRan =>
        /\ \A i \in 1..Len(last.decorations) :
               LET range == MappedRange(last.decorations[i])
               IN  \/ PreciselySelected(last.decorations[i])
                   \/ IntersectsSelection(range, last.sels)
                   \/ CursorWithin(range, last.sels)
                   => SpansSelectedLine(range, last.sels)
        /\ DOMAIN last.filtered = {t \in FilterTypes : LineSurvivorPlaces(t) # {}}
        /\ \A t \in DOMAIN last.filtered :
               last.filtered[t]
                   = [n \in 1..Cardinality(LineSurvivorPlaces(t)) |->
                         MappedRange(last.decorations[Nth(LineSurvivorPlaces(t), n)])]

\* C29 witness: of two decorations, one spans two lines and a non-empty
\* selection overlaps it on its second line, so that both checks leave it
\* out; the other is on a line no selection touches and is in the output
C29_Witness ==
    /\ FilterRan
    /\ Len(last.decorations) = 2
    /\ \E i \in 1..2 :
           /\ PreciselySelected(last.decorations[i])
           /\ MappedRange(last.decorations[i]).start.line
                  < MappedRange(last.decorations[i]).end.line
           /\ last.sels[1].start.line = MappedRange(last.decorations[i]).end.line
           /\ ~isEmpty(last.sels[1])
    /\ \E t \in DOMAIN last.filtered : Len(last.filtered[t]) = 1

\* the link and image nodes of the parsed document
LinksAndImages ==
    {j \in 1..Len(FaultFreeTree) : FaultFreeTree[j].type \in {"link", "image"}}

\* every range the handler of node j adds lies inside the node's span
AddedInside(j) ==
    \A d \in 1..Len(Added(j)) :
        /\ FaultFreeTree[j].start <= Added(j)[d].startPos
        /\ Added(j)[d].endPos <= FaultFreeTree[j].end

(***************************************************************************)
(* C30: every range added while handling a link or image node lies inside  *)
(* the node's span [start, end), whatever the node's source looks like     *)
(* (bracketed link, autolink without brackets, image nested in a link),    *)
(* and a link range's url is the url of the node whose text it covers.     *)
(***************************************************************************)
C30_LinkRangesInsideNode ==
    Parsed =>
        /\ \A j \in LinksAndImages : AddedInside(j)
        /\ \A i \in 1..Len(last.result) :
               last.result[i].type = "link" =>
                   \E j \in LinksAndImages :
                       /\ FaultFreeTree[j].type = "link"
                       /\ FaultFreeTree[j].url = last.result[i].url
                       /\ FaultFreeTree[j].start <= last.result[i].startPos
                       /\ last.result[i].endPos <= FaultFreeTree[j].end

\* what holds instead: the ranges of an image node, and of a link node whose
\* source starts with '[', lie inside the node; a link node without a bracket
\* of its own adds ranges only when a '[' follows it in the text, and then
\* all of them outside its span
OnlyBracketedLinksStayInside ==
    Parsed =>
        \A j \in LinksAndImages :
            IF FaultFreeTree[j].type = "image"
               \/ CharAt(Normalized, FaultFreeTree[j].start) = "["
            THEN AddedInside(j)
            ELSE \A d \in 1..Len(Added(j)) :
                     FaultFreeTree[j].end <= Added(j)[d].startPos

====
